---- MODULE Spec2Model ----
(***************************************************************************)
(* Verification model of the GitLab merge-request documentation scripts.   *)
(*                                                                         *)
(* The repository holds several variants of the same pipeline.  The        *)
(* `script' variable names the variant whose code a run follows.  Each     *)
(* specification below runs one part of the pipeline and leaves the        *)
(* variables of the other parts at their idle values:                      *)
(*   - AccessSpec   : check_mr_accessibility (per-merge-request check)     *)
(*   - AnalysisSpec : the Gemini analysis step and its response extraction *)
(*   - BatchSpec    : the batch loops over the list of merge requests      *)
(*   - SynthSpec    : the template (fallback) document generators          *)
(*   - ClassifySpec : process_file_changes / determine_change_type         *)
(* Texts are modelled by their length and the markers the code looks for.  *)
(***************************************************************************)
EXTENDS Integers, Sequences, FiniteSets, TLC

VARIABLES
    \* ---- accessibility check ----
    script,                     \* which variant of the scripts is running
    api_access_working,         \* self.api_access_working
    browser_session_available,  \* self.browser_session_available
    skip_browser,               \* self.skip_browser (SKIP_BROWSER_VERIFICATION)
    ssl_verify,                 \* self.ssl_verify (getattr default True)
    result,                     \* dict returned by the last check_mr_accessibility
    outcome,                    \* "idle" | "returned" | "raised" for the last call
    lastCall,                   \* inputs the environment gave to the last call
    calls,                      \* number of check_mr_accessibility calls so far
    \* ---- analysis step ----
    surface,                    \* what the analysis surface does during the call
    analysis,                   \* what the analysis step handed back to its caller
    \* ---- batch loop ----
    mr_list,                    \* the input list; entry i tells how merge request i behaves
    outputs,                    \* the per-merge-request outputs in the order they are kept
    attempted,                  \* merge requests whose processing was started
    pos,                        \* loop index into the list being walked
    phase,                      \* "check" | "process" | "end"
    \* ---- template documents ----
    clock,                      \* wall-clock time in seconds (datetime.now())
    synthIn,                    \* the metadata and changes given to the generator
    docs,                       \* the documents returned so far, in call order
    \* ---- change classifier ----
    changes,                    \* the 'changes' list of the API answer
    processed_changes,          \* the list process_file_changes builds
    \* ---- line counts of the diffs ----
    diff,                       \* the diff of the change handled last, as its lines
    additions,                  \* 'additions' of the entry appended last
    deletions,                  \* 'deletions' of the entry appended last
    total_additions,            \* running total over the changes
    total_deletions,
    nchanges,                   \* len(changes): entries appended so far
    \* ---- prompt construction ----
    changes_data,               \* the 'changes' list given to extract_java_changes
    java_changes,               \* the list extract_java_changes returns
    prompt,                     \* the diff blocks of the prompt, in order
    \* ---- response polling ----
    elapsed,                    \* time.time() - start_time, in seconds
    poll_state,                 \* "polling", or how the loop ended
    seen,                       \* what the page showed in the last iteration
    iteration,                  \* number of loop iterations so far, modulo 2
    poll_result,                \* what the analysis step hands to the document
    \* ---- capability probing ----
    probe_pc,                   \* "start" | "signin" (waiting for the operator) | "end"
    outer_guard,                \* an except clause of the caller is still ahead
    inner_guard,                \* what the session check does with a raising prompt
    attempt,                    \* 'attempt' of prompt_enhanced_signin
    prompts,                    \* times the operator was asked to sign in
    \* ---- one run of main() ----
    run_pc,                     \* where main() is
    driver,                     \* "none" | "open" | "quit": the WebDriver session
    generator,                  \* main's local 'generator' is bound to an object
    exit_kind,                  \* how the run left the try body
    run_mode,                   \* configuration of the run
    mr_count,                   \* len(MERGE_REQUESTS)
    mr_index,                   \* merge requests handled so far
    \* ---- order of the pipeline stages in a batch ----
    st_count,                   \* len(mr_list)
    accessible_mrs,             \* indices the first loop found accessible
    st_pos,                     \* index of the merge request being handled
    st_stage,                   \* "check" | the stage to run next | "end"
    stage_log,                  \* the stages run so far, in order
    \* ---- submitting the prompt ----
    sub_pc,                     \* "submit" | "returned" | "raised"
    sub_idx,                    \* index of the strategy to try next
    send_button,                \* the local 'send_button' holds an element
    attempts,                   \* the strategies tried so far with their outcomes
    \* ---- the browser tab during the analysis step ----
    tab,                        \* the window the driver is switched to
    tab_pc,                     \* position inside the analysis routine
    tab_path,                   \* the return path the last call took
    tab_switched,               \* this call switched to the analysis tab
    tab_count                   \* calls of the analysis routine finished

accessVars == <<script, api_access_working, browser_session_available,
                skip_browser, ssl_verify, result, outcome, lastCall, calls>>

analysisVars == <<surface, analysis>>

batchVars == <<mr_list, outputs, attempted, pos, phase>>

synthVars == <<clock, synthIn, docs>>

classifyVars == <<changes, processed_changes>>

diffVars == <<diff, additions, deletions, total_additions, total_deletions, nchanges>>

\* the variables of the parts added to the five above
promptVars == <<changes_data, java_changes, prompt>>

pollVars == <<elapsed, poll_state, seen, iteration, poll_result>>

probeVars == <<probe_pc, outer_guard, inner_guard, attempt, prompts>>

runVars == <<run_pc, driver, generator, exit_kind, run_mode, mr_count, mr_index>>

\* the variables of the parts added last
stageVars == <<st_count, accessible_mrs, st_pos, st_stage, stage_log>>

submitVars == <<sub_pc, sub_idx, send_button, attempts>>

tabVars == <<tab, tab_pc, tab_path, tab_switched, tab_count>>

lateVars == <<runVars, stageVars, submitVars, tabVars>>

extVars == <<diffVars, promptVars, pollVars, probeVars, lateVars>>

vars == <<accessVars, analysisVars, batchVars, synthVars, classifyVars, extVars>>

(***************************************************************************)
(* Bounds                                                                  *)
(***************************************************************************)
MaxCalls == 2
\* number of response selectors the extraction strategies try in order
MaxSelectors == 2
\* longest list of merge requests handed to a batch run
MaxMRs == 3
\* seconds of wall-clock time that pass during a run
MaxClock == 3
\* most changed files of one merge request
MaxFiles == 2

(***************************************************************************)
(* Python None for optional values: mr_info is <<>> or <<info>>, error is  *)
(* NoError or a message.                                                   *)
(***************************************************************************)
None == <<>>
NoError == "None"

Some(x) == <<x>>

(***************************************************************************)
(* Values of the variables of a sub-machine that is not running            *)
(***************************************************************************)
AnalysisIdle ==
    /\ surface = <<>>
    /\ analysis = <<>>

SynthIdle ==
    /\ clock = 0
    /\ synthIn = <<>>
    /\ docs = <<>>

ClassifyIdle ==
    /\ changes = <<>>
    /\ processed_changes = <<>>

BatchIdle ==
    /\ mr_list = <<>>
    /\ outputs = <<>>
    /\ attempted = {}
    /\ pos = 0
    /\ phase = "end"

DiffIdle ==
    /\ diff = <<>>
    /\ additions = 0
    /\ deletions = 0
    /\ total_additions = 0
    /\ total_deletions = 0
    /\ nchanges = 0

PromptIdle ==
    /\ changes_data = <<>>
    /\ java_changes = <<>>
    /\ prompt = <<>>

PollIdle ==
    /\ elapsed = 0
    /\ poll_state = "idle"
    /\ seen = <<>>
    /\ iteration = 0
    /\ poll_result = "none"

ProbeIdle ==
    /\ probe_pc = "end"
    /\ outer_guard = FALSE
    /\ inner_guard = "none"
    /\ attempt = 1
    /\ prompts = 0

RunIdle ==
    /\ run_pc = "idle"
    /\ driver = "none"
    /\ generator = FALSE
    /\ exit_kind = "none"
    /\ run_mode = "none"
    /\ mr_count = 0
    /\ mr_index = 0

StageIdle ==
    /\ st_count = 0
    /\ accessible_mrs = {}
    /\ st_pos = 0
    /\ st_stage = "idle"
    /\ stage_log = <<>>

SubmitIdle ==
    /\ sub_pc = "idle"
    /\ sub_idx = 0
    /\ send_button = FALSE
    /\ attempts = <<>>

TabIdle ==
    /\ tab = "none"
    /\ tab_pc = "idle"
    /\ tab_path = "none"
    /\ tab_switched = FALSE
    /\ tab_count = 0

LateIdle ==
    /\ RunIdle
    /\ StageIdle
    /\ SubmitIdle
    /\ TabIdle

ExtIdle ==
    /\ LateIdle
    /\ DiffIdle
    /\ PromptIdle
    /\ PollIdle
    /\ ProbeIdle

AccessIdle ==
    /\ api_access_working = FALSE
    /\ browser_session_available = FALSE
    /\ skip_browser = FALSE
    /\ ssl_verify = TRUE
    /\ result = <<>>
    /\ lastCall = <<>>
    /\ calls = 0

(***************************************************************************)
(* ACCESSIBILITY CHECK                                                     *)
(***************************************************************************)

\* What the GitLab API can answer to GET .../merge_requests/{iid}
ApiResponses == {"200", "401", "403", "404", "500", "SSLError", "ConnectionError"}

\* What the rendered merge-request page can look like.  raises: the driver
\* call fails; errSel: an error CSS selector matches; errText: one of the
\* error texts is in the body; mrText: "merge request" is in the body;
\* mrText2: "merge_request" is in the body; mrSel: a merge-request CSS
\* selector matches; title: what the title lookups give.
\* A title lookup finds no element ("absent"), an element whose stripped text
\* is empty ("empty"), or an element with text.
TitleFinds == {"absent", "empty", "Fix login bug", "Draft"}

\* The driver fails during the title lookups.
TitleRaises == <<"raises">>

\* TitleRaises, or what the first two title candidates give, in the order the
\* code meets them (the later candidates find nothing).
TitleOutcomes ==
    {TitleRaises} \cup {<<a, b>> : a \in TitleFinds \ {"Draft"}, b \in TitleFinds \ {"Fix login bug"}}

\* The title candidate the code's lookup stops at: the first one that finds
\* an element, whatever its text ("absent" when none does).
first_title_element(title) ==
    IF title[1] # "absent" THEN title[1] ELSE title[2]

stripped_text(find) == IF find = "empty" THEN "" ELSE find

Pages ==
    [raises : {FALSE}, errSel : BOOLEAN, errText : BOOLEAN, mrText : BOOLEAN,
     mrText2 : BOOLEAN, mrSel : BOOLEAN, title : {<<"Fix login bug", "absent">>}]
    \cup
    [raises : {FALSE}, errSel : {FALSE}, errText : {FALSE}, mrText : {FALSE},
     mrText2 : {FALSE}, mrSel : {TRUE}, title : TitleOutcomes]
    \cup
    [raises : {TRUE}, errSel : {FALSE}, errText : {FALSE}, mrText : {FALSE},
     mrText2 : {FALSE}, mrSel : {FALSE}, title : {<<"absent", "absent">>}]

\* An API answer and, for an SSL error, the answer to the one retry that the
\* enhanced script makes without certificate verification.
ApiAnswers ==
    {<<r, "200">> : r \in ApiResponses}
    \cup {<<"SSLError", "404">>, <<"SSLError", "ConnectionError">>}

EmptyResult ==
    [accessible |-> FALSE, api_accessible |-> FALSE, browser_accessible |-> FALSE,
     mr_info |-> None, error |-> NoError]

ApiInfo == [title |-> "api title", source |-> "api"]

\* enhanced_gitlab_mr_generator.py get_merge_request_info: every status but
\* 200 gives None; an SSL error is retried once without verification and a
\* 200 on the retry makes ssl_verify False; every exception is swallowed.
\* Mutant of get_merge_request_info: a 200 on the unverified retry is
\* returned without remembering the relaxed mode.
get_merge_request_info_forgetful(resp, retry, sslv) ==
    CASE resp = "200" -> [info |-> Some(ApiInfo), ssl_verify |-> sslv]
      [] resp = "SSLError" ->
            [info |-> IF retry = "200" THEN Some(ApiInfo) ELSE None, ssl_verify |-> sslv]
      [] OTHER -> [info |-> None, ssl_verify |-> sslv]

get_merge_request_info(resp, retry, sslv) ==
    CASE resp = "200" -> [info |-> Some(ApiInfo), ssl_verify |-> sslv]
      [] resp = "SSLError" ->
            IF retry = "200"
            THEN [info |-> Some(ApiInfo), ssl_verify |-> FALSE]
            ELSE [info |-> None, ssl_verify |-> sslv]
      [] OTHER -> [info |-> None, ssl_verify |-> sslv]

\* gitlab_mr_doc_generator_fixed.py get_merge_request_info: no try/except,
\* so a network or SSL error propagates to the caller.
get_merge_request_info_doc(resp) ==
    CASE resp = "200" -> [raised |-> FALSE, info |-> Some(ApiInfo)]
      [] resp \in {"SSLError", "ConnectionError"} -> [raised |-> TRUE, info |-> None]
      [] OTHER -> [raised |-> FALSE, info |-> None]

\* Mutant of check_mr_browser_access: the error-indicator checks are lost.
check_mr_browser_access_noErrorCheck(page, res) ==
    IF page.raises
    THEN [ok |-> FALSE, res |-> [res EXCEPT !.error = "Browser access check failed"]]
    ELSE IF page.mrSel \/ page.mrText \/ page.mrText2
    THEN [ok |-> TRUE, res |-> [res EXCEPT !.browser_accessible = TRUE]]
    ELSE [ok |-> FALSE, res |-> [res EXCEPT !.error = "MR content not found in browser"]]

\* enhanced_gitlab_mr_generator.py check_mr_browser_access
check_mr_browser_access(page, res) ==
    IF page.raises
    THEN [ok |-> FALSE, res |-> [res EXCEPT !.error = "Browser access check failed"]]
    ELSE IF page.errSel
    THEN [ok |-> FALSE,
          res |-> [res EXCEPT !.error = "Access denied or MR not found via browser"]]
    ELSE IF page.errText /\ ~page.mrText
    THEN [ok |-> FALSE, res |-> [res EXCEPT !.error = "Error page detected"]]
    ELSE IF page.mrSel
    THEN [ok |-> TRUE, res |-> [res EXCEPT !.browser_accessible = TRUE]]
    ELSE IF page.mrText \/ page.mrText2
    THEN [ok |-> TRUE, res |-> [res EXCEPT !.browser_accessible = TRUE]]
    ELSE [ok |-> FALSE, res |-> [res EXCEPT !.error = "MR content not found in browser"]]

\* enhanced_gitlab_mr_generator.py extract_mr_info_from_browser: the first
\* title selector with elements gives the title (stripped, possibly empty);
\* none gives "Unknown Title"; an exception leaves mr_info untouched.
extract_mr_info_from_browser(page, res) ==
    IF page.title = TitleRaises THEN res
    ELSE LET e == first_title_element(page.title)
         IN [res EXCEPT !.mr_info =
                Some([title |-> IF e = "absent" THEN "Unknown Title" ELSE stripped_text(e),
                      source |-> "browser"])]

\* enhanced_gitlab_mr_generator.py check_mr_accessibility
check_mr_accessibility(apiWorking, browserAvail, skipBrowser, sslv, resp, retry, page) ==
    LET api == IF apiWorking
               THEN get_merge_request_info(resp, retry, sslv)
               ELSE [info |-> None, ssl_verify |-> sslv]
        r1 == IF api.info # None
              THEN [EmptyResult EXCEPT !.api_accessible = TRUE, !.mr_info = api.info]
              ELSE EmptyResult
        doBrowser == browserAvail /\ (~r1.api_accessible \/ ~skipBrowser)
        b  == check_mr_browser_access(page, r1)
        r2 == IF ~doBrowser THEN r1
              ELSE IF b.ok /\ b.res.mr_info = None
              THEN extract_mr_info_from_browser(page, b.res)
              ELSE b.res
        r3 == [r2 EXCEPT !.accessible = r2.api_accessible \/ r2.browser_accessible]
    IN [outcome |-> "returned", result |-> r3, ssl_verify |-> api.ssl_verify,
        api_called |-> apiWorking, verify_ssl |-> sslv, browser_checked |-> doBrowser]

\* gitlab_mr_doc_generator_fixed.py check_mr_accessibility, title lookup: one
\* find_element over the four title selectors gives the first matching
\* element of the page; its stripped text is the title; when the driver fails
\* or nothing matches, the bare except leaves mr_info as it is.  The info
\* holds title, web_url and iid and no source tag.
find_title_doc(title) ==
    IF title = TitleRaises THEN None
    ELSE IF first_title_element(title) = "absent" THEN None
    ELSE Some([title |-> stripped_text(first_title_element(title)), source |-> "none"])

\* gitlab_mr_doc_generator_fixed.py check_mr_accessibility (the same text as
\* in gitlab_mr_doc_generator.py, in the class whose constructor sets the
\* request headers): the browser steps run inside the function's own
\* try block, so a driver failure jumps to the except clause, which sets
\* only the error and returns the result as it stands.
check_mr_accessibility_doc(apiWorking, browserAvail, sslv, resp, page) ==
    LET api == IF apiWorking
               THEN get_merge_request_info_doc(resp)
               ELSE [raised |-> FALSE, info |-> None]
        r1 == IF api.info # None
              THEN [EmptyResult EXCEPT !.api_accessible = TRUE, !.mr_info = api.info]
              ELSE EmptyResult
        doBrowser == browserAvail \/ ~r1.api_accessible
        denied == page.errSel \/ page.errText
        r2 == IF ~doBrowser THEN r1
              ELSE IF denied
              THEN [r1 EXCEPT !.error = "Access denied or MR not found via browser"]
              ELSE IF page.mrSel
              THEN LET rb == [r1 EXCEPT !.browser_accessible = TRUE]
                   IN IF rb.mr_info # None \/ find_title_doc(page.title) = None
                      THEN rb
                      ELSE [rb EXCEPT !.mr_info = find_title_doc(page.title)]
              ELSE [r1 EXCEPT !.error = "MR content not found in browser"]
        r3 == [r2 EXCEPT !.accessible = r2.api_accessible \/ r2.browser_accessible]
        caught == [EmptyResult EXCEPT !.error = "Error checking MR accessibility"]
    IN IF api.raised
       THEN [outcome |-> "returned", result |-> caught, ssl_verify |-> sslv,
             api_called |-> TRUE, verify_ssl |-> TRUE, browser_checked |-> FALSE]
       ELSE IF doBrowser /\ page.raises
       THEN [outcome |-> "returned",
             result |-> [r1 EXCEPT !.error = "Error checking MR accessibility"],
             ssl_verify |-> sslv, api_called |-> apiWorking, verify_ssl |-> TRUE,
             browser_checked |-> TRUE]
       ELSE [outcome |-> "returned", result |-> r3, ssl_verify |-> sslv,
             api_called |-> apiWorking, verify_ssl |-> TRUE, browser_checked |-> doBrowser]

AccessScripts == {"enhanced", "doc_generator_fixed"}

\* The capability flags a finished constructor can leave behind.
\* enhanced: the API probe succeeded and the browser was verified, or was
\* skipped (SKIP_BROWSER_VERIFICATION), or the API probe failed and the
\* browser session was established.  doc_generator_fixed: the gentle check may
\* leave the browser unavailable when the API works.
InitAccessFlags(s, a, b, k) ==
    IF s = "enhanced"
    THEN \/ a /\ b /\ ~k
         \/ a /\ ~b /\ k
         \/ ~a /\ b /\ ~k
    ELSE ~k /\ (a \/ b)

InitAccess ==
    /\ script \in AccessScripts
    /\ api_access_working \in BOOLEAN
    /\ browser_session_available \in BOOLEAN
    /\ skip_browser \in BOOLEAN
    /\ InitAccessFlags(script, api_access_working, browser_session_available, skip_browser)
    /\ ssl_verify \in BOOLEAN
    /\ result = EmptyResult
    /\ outcome = "idle"
    /\ lastCall = [resp |-> "200", retry |-> "200", page |-> CHOOSE p \in Pages : p.raises,
                   api |-> FALSE, browser |-> FALSE, api_called |-> FALSE,
                   verify_ssl |-> TRUE,
                   browser_checked |-> FALSE]
    /\ calls = 0
    /\ AnalysisIdle
    /\ BatchIdle
    /\ SynthIdle
    /\ ClassifyIdle
    /\ ExtIdle

\* One call of check_mr_accessibility of the enhanced script.
CheckMrAccessibility ==
    /\ script = "enhanced"
    /\ calls < MaxCalls
    /\ \E ans \in ApiAnswers, page \in Pages :
          LET resp == ans[1]
              retry == ans[2]
              c == check_mr_accessibility(api_access_working, browser_session_available,
                                          skip_browser, ssl_verify, resp, retry, page)
          IN /\ result' = c.result
             /\ outcome' = c.outcome
             /\ ssl_verify' = c.ssl_verify
             /\ lastCall' = [resp |-> resp, retry |-> retry, page |-> page,
                             api |-> api_access_working,
                             browser |-> browser_session_available,
                             api_called |-> c.api_called,
                             verify_ssl |-> c.verify_ssl,
                             browser_checked |-> c.browser_checked]
    /\ calls' = calls + 1
    /\ UNCHANGED <<script, api_access_working, browser_session_available, skip_browser>>
    /\ UNCHANGED <<analysisVars, batchVars, synthVars, classifyVars, extVars>>

\* One call of check_mr_accessibility of the doc_generator_fixed script.
CheckMrAccessibilityDoc ==
    /\ script = "doc_generator_fixed"
    /\ calls < MaxCalls
    /\ \E resp \in ApiResponses, page \in Pages :
          LET c == check_mr_accessibility_doc(api_access_working, browser_session_available,
                                              ssl_verify, resp, page)
          IN /\ result' = c.result
             /\ outcome' = c.outcome
             /\ ssl_verify' = c.ssl_verify
             /\ lastCall' = [resp |-> resp, retry |-> "200", page |-> page,
                             api |-> api_access_working,
                             browser |-> browser_session_available,
                             api_called |-> c.api_called,
                             verify_ssl |-> c.verify_ssl,
                             browser_checked |-> c.browser_checked]
    /\ calls' = calls + 1
    /\ UNCHANGED <<script, api_access_working, browser_session_available, skip_browser>>
    /\ UNCHANGED <<analysisVars, batchVars, synthVars, classifyVars, extVars>>

AccessNext == CheckMrAccessibility \/ CheckMrAccessibilityDoc

AccessSpec == InitAccess /\ [][AccessNext]_vars

(***************************************************************************)
(* Claims about the accessibility check                                    *)
(***************************************************************************)

\* C1: every result returned by check_mr_accessibility satisfies
\* accessible = (api_accessible OR browser_accessible), on every return path.
C1_AccessibleIsOr ==
    outcome = "returned" =>
        result.accessible = (result.api_accessible \/ result.browser_accessible)

\* C2: a returned result with api_accessible and browser_accessible both
\* false has mr_info null and a failure reason (error) that is not null.
C2_BothFalseHasReason ==
    (outcome = "returned" /\ ~result.api_accessible /\ ~result.browser_accessible)
        => (result.mr_info = None /\ result.error # NoError)

ApiFailed(c) == ~c.api \/ c.resp \in {"401", "403", "404", "500", "ConnectionError"}
UiFailed(c) == c.page.raises \/ c.page.errSel

\* C3: the accessibility check never raises; whenever the API call failed
\* (error status or network error, or the API is not in use) and the page
\* visit failed (UI-automation error or an error page), it returns a result
\* whose accessible flag is false.
C3_NeverRaises ==
    /\ outcome # "raised"
    /\ (outcome = "returned" /\ ApiFailed(lastCall) /\ UiFailed(lastCall))
          => ~result.accessible

\* C3 witness: the enhanced check returned after the API call hit a network
\* error and the browser visit raised, both channels having been consulted.
C3_Witness ==
    /\ script = "enhanced" /\ outcome = "returned"
    /\ lastCall.api /\ lastCall.browser
    /\ lastCall.resp = "ConnectionError" /\ lastCall.page.raises
    /\ ~result.accessible

\* C18: when the per-request call of get_merge_request_info is answered with
\* HTTP 401 or 403, the run-scoped flag api_access_working is false from then
\* on, so that no later merge request issues the API call again.
C18_AuthFailureClearsApiFlag ==
    (script = "enhanced" /\ outcome = "returned"
        /\ lastCall.api /\ lastCall.resp \in {"401", "403"})
        => ~api_access_working

\* The error texts of check_mr_accessibility that contain "not found".
NotFoundReasons ==
    {"Access denied or MR not found via browser", "MR content not found in browser"}

\* C19: when the API answers 404 for a merge request, the result has
\* api_accessible false and an error containing "not found", and the browser
\* check is still made for that merge request when a browser session exists.
C19_NotFoundIsReported ==
    (script = "enhanced" /\ outcome = "returned"
        /\ lastCall.api /\ lastCall.resp = "404")
        => /\ ~result.api_accessible
           /\ result.error \in NotFoundReasons
           /\ lastCall.browser => lastCall.browser_checked

\* The text of the first title candidate whose stripped text is not empty.
FirstNonEmptyTitle(title) ==
    IF title[1] \notin {"absent", "empty"} THEN title[1] ELSE title[2]

HasTitleText(title) ==
    title # TitleRaises /\ FirstNonEmptyTitle(title) \notin {"absent", "empty"}

\* C20: when the browser check finds the merge request reachable and the API
\* gave no mr_info, and some title candidate has non-empty text, mr_info
\* holds the text of the first such candidate and is tagged as coming from
\* the browser.
C20_TitleIsFirstNonEmpty ==
    (outcome = "returned" /\ lastCall.browser_checked /\ result.browser_accessible
        /\ ~result.api_accessible /\ HasTitleText(lastCall.page.title))
        => /\ result.mr_info # None
           /\ result.mr_info[1].title = FirstNonEmptyTitle(lastCall.page.title)
           /\ result.mr_info[1].source = "browser"

\* C22: capability degradation is sticky: a check_mr_accessibility call made
\* while api_access_working is false issues no API request, and one made
\* while browser_session_available is false does not visit the page.
C22_DegradedChannelNotProbed ==
    outcome = "returned" =>
        /\ lastCall.api_called => lastCall.api
        /\ lastCall.browser_checked => lastCall.browser

\* The markers the browser check looks for on the rendered page: an error
\* selector or one of the error texts; a merge-request selector.
ErrorMarker(page) == page.errSel \/ page.errText
ContentMarker(page) == page.mrSel
NoMarker(page) == ~ErrorMarker(page) /\ ~page.mrSel /\ ~page.mrText /\ ~page.mrText2

\* C23: the browser check classifies the rendered page in order: a page with
\* an error marker is unreachable even if it also shows merge-request
\* markers; otherwise a page with a merge-request-content marker is
\* reachable; a page with neither is unreachable and an error is recorded.
C23_PageClassifiedInOrder ==
    (outcome = "returned" /\ lastCall.browser_checked /\ ~lastCall.page.raises)
        => /\ ErrorMarker(lastCall.page) => ~result.browser_accessible
           /\ (~ErrorMarker(lastCall.page) /\ ContentMarker(lastCall.page))
                 => result.browser_accessible
           /\ NoMarker(lastCall.page)
                 => (~result.browser_accessible /\ result.error # NoError)

\* C24 as stated: after an API request of check_mr_accessibility failed with
\* an SSL error, the relaxed mode is on (ssl_verify is false).
C24_SslErrorRelaxes ==
    (script = "enhanced" /\ outcome = "returned"
        /\ lastCall.api_called /\ lastCall.resp = "SSLError")
        => ~ssl_verify

\* C24, amended: in the enhanced script, an SSL error whose retry without
\* verification answers 200 turns ssl_verify off; an SSL error whose retry
\* fails leaves the mode as it was; once ssl_verify is off every later API
\* request is made with verify=False and ssl_verify never becomes true again.
C24_RelaxedAfterGoodRetry ==
    [][script = "enhanced" =>
          /\ ~ssl_verify => ~ssl_verify'
          /\ (~ssl_verify /\ lastCall'.api_called) => ~lastCall'.verify_ssl
          /\ (lastCall'.api_called /\ lastCall'.resp = "SSLError")
                => (ssl_verify' = (ssl_verify /\ lastCall'.retry # "200"))]_vars

\* C24 witness: a verified request hit an SSL error, the unverified retry
\* answered 200, and the run is now in relaxed mode.
C24_Witness ==
    /\ script = "enhanced" /\ outcome = "returned"
    /\ lastCall.api_called /\ lastCall.verify_ssl
    /\ lastCall.resp = "SSLError" /\ lastCall.retry = "200"
    /\ result.api_accessible
    /\ ~ssl_verify

(***************************************************************************)
(* ANALYSIS STEP (Gemini web interface)                                    *)
(***************************************************************************)

\* Lengths of the texts found on the analysis page, around the thresholds
\* the extraction code compares with (50 and 100).
Lens == {0, 30, 50, 51, 100, 101}

\* What one response selector finds: no element, or a last element whose
\* stripped text has length len and does or does not end with "...".
Candidates ==
    {[present |-> FALSE, len |-> 0, dots |-> FALSE]}
    \cup {[present |-> TRUE, len |-> n, dots |-> FALSE] : n \in Lens}
    \cup {[present |-> TRUE, len |-> 101, dots |-> TRUE]}

\* The sequences of length n over S.
SeqsOfLen(S, n) == [1..n -> S]

\* The body text as the fall-back scans see it: reading it raises, or the
\* scan keeps a slice of the given length.
BodyRaises == -1
Bodies == {BodyRaises} \cup Lens

\* The stage of the interaction at which the driver raises, if any;
\* "input" stands for no input element being found.
Failures == {"none", "nav", "input", "type", "submit"}

\* ready: the precondition the script tests before it touches the surface
\* (gemini_ready, self.driver, a non-empty java_changes).
Surfaces ==
    [ready : BOOLEAN, fail : Failures,
     cands : SeqsOfLen(Candidates, MaxSelectors), body : Bodies]

Fallback == [provenance |-> "fallback"]
External(n) == [provenance |-> "external", len |-> n, error |-> FALSE]
ErrorText(n) == [provenance |-> "external", len |-> n, error |-> TRUE]

\* len("Error getting response from Gemini: "), the shortest error text
\* (the exception message appended to it may be empty)
ErrorPrefixLen == 36
\* len("Could not extract response from Gemini")
ExtractFailLen == 38

\* Index of the first TRUE entry of a sequence of booleans, or 0.
FirstIndex(accepted) ==
    IF \E i \in 1..Len(accepted) : accepted[i]
    THEN CHOOSE i \in 1..Len(accepted) :
            accepted[i] /\ \A j \in 1..(i - 1) : ~accepted[j]
    ELSE 0

\* gitlab_mr_doc_generator.py extract_gemini_response: the last element of
\* the first selector whose text is longer than 50; otherwise "".
extract_gemini_response_doc(cands) ==
    LET i == FirstIndex([k \in 1..Len(cands) |-> cands[k].present /\ cands[k].len > 50])
    IN IF i = 0 THEN 0 ELSE cands[i].len

\* gitlab_mr_doc_generator.py extract_gemini_response_alternative: the lines
\* from the first keyword line on, or the last 2000 characters of the body,
\* whatever their length; on an exception the fixed message.
extract_gemini_response_alternative(body) ==
    IF body = BodyRaises THEN ErrorText(ExtractFailLen) ELSE External(body)

\* gitlab_mr_doc_generator.py send_prompt_to_gemini_web: any exception of
\* the navigation, the input lookup, the typing or the submission is turned
\* into a returned error text.
send_prompt_to_gemini_web(sf) ==
    IF sf.fail # "none"
    THEN ErrorText(ErrorPrefixLen)
    ELSE LET n == extract_gemini_response_doc(sf.cands)
         IN IF n # 0 THEN External(n)
            ELSE extract_gemini_response_alternative(sf.body)

\* gitlab_mr_completion.py GeminiProIntegration.enhance_documentation: the
\* text of the first response selector that is present is returned as it is.
enhance_documentation(sf) ==
    LET i == FirstIndex([k \in 1..Len(sf.cands) |-> sf.cands[k].present])
    IN IF ~sf.ready \/ sf.fail # "none" THEN Fallback
       ELSE IF i = 0 THEN Fallback
       ELSE External(sf.cands[i].len)

\* gitlab_mr_missing_code.py extract_gemini_response: first selector text
\* longer than 50, else the captured body lines if longer than 100, else "".
extract_gemini_response(cands, body) ==
    LET i == FirstIndex([k \in 1..Len(cands) |-> cands[k].present /\ cands[k].len > 50])
    IN IF i # 0 THEN cands[i].len
       ELSE IF body # BodyRaises /\ body > 100 THEN body
       ELSE 0

\* gitlab_mr_missing_code.py send_to_gemini_analysis
send_to_gemini_analysis(sf) ==
    IF ~sf.ready \/ sf.fail # "none" THEN Fallback
    ELSE LET n == extract_gemini_response(sf.cands, sf.body)
         IN IF n > 100 THEN External(n) ELSE Fallback

\* gitlab_mr_generator_improved.py get_gemini_response: a selector text
\* longer than 100 that does not end with "..." is the response; without
\* one the loop runs into its timeout and gives "".
get_gemini_response(cands) ==
    LET i == FirstIndex([k \in 1..Len(cands) |->
                            cands[k].present /\ cands[k].len > 100 /\ ~cands[k].dots])
    IN IF i = 0 THEN 0 ELSE cands[i].len

\* gitlab_mr_generator_improved.py analyze_code_changes_with_gemini
analyze_code_changes_with_gemini(sf) ==
    IF ~sf.ready \/ sf.fail # "none" THEN Fallback
    ELSE LET n == get_gemini_response(sf.cands)
         IN IF n # 0 THEN External(n) ELSE Fallback

AnalysisScripts == {"doc_generator", "completion", "missing_code", "improved"}

InitAnalysis ==
    /\ script \in AnalysisScripts
    /\ surface \in Surfaces
    /\ analysis = <<>>
    /\ outcome = "idle"
    /\ AccessIdle
    /\ BatchIdle
    /\ SynthIdle
    /\ ClassifyIdle
    /\ ExtIdle

Analyse(s, body) ==
    /\ script = s
    /\ outcome = "idle"
    /\ analysis' = body
    /\ outcome' = "returned"
    /\ UNCHANGED <<script, surface>>
    /\ UNCHANGED <<api_access_working, browser_session_available, skip_browser,
                   ssl_verify, result, lastCall, calls>>
    /\ UNCHANGED <<batchVars, synthVars, classifyVars, extVars>>

SendPromptToGeminiWeb == Analyse("doc_generator", send_prompt_to_gemini_web(surface))
EnhanceDocumentation == Analyse("completion", enhance_documentation(surface))
SendToGeminiAnalysis == Analyse("missing_code", send_to_gemini_analysis(surface))
AnalyzeCodeChangesWithGemini ==
    Analyse("improved", analyze_code_changes_with_gemini(surface))

AnalysisNext ==
    \/ SendPromptToGeminiWeb
    \/ EnhanceDocumentation
    \/ SendToGeminiAnalysis
    \/ AnalyzeCodeChangesWithGemini

AnalysisSpec == InitAnalysis /\ [][AnalysisNext]_vars

(***************************************************************************)
(* Claims about the analysis step                                          *)
(***************************************************************************)

\* The substantiveness threshold of the specification (50 characters).
Threshold == 50

\* C4: any text handed back as the external analysis result has length at
\* least the substantiveness threshold.
C4_ExternalIsSubstantive ==
    (outcome = "returned" /\ analysis.provenance = "external")
        => analysis.len >= Threshold

NoCandidateQualifies(sf) ==
    /\ \A i \in 1..Len(sf.cands) : ~sf.cands[i].present \/ sf.cands[i].len <= Threshold
    /\ sf.body = BodyRaises \/ sf.body <= Threshold

\* C5: when no extraction candidate exceeds the substantiveness threshold,
\* the analysis step hands back the fallback document.
C5_NoCandidateGivesFallback ==
    (outcome = "returned" /\ NoCandidateQualifies(surface))
        => analysis = Fallback

\* C6: an exception at any stage of the interaction ends in the
\* no-enrichment outcome: nothing escapes and no error text is handed back
\* in place of an analysis.
C6_ExceptionsDegrade ==
    /\ outcome # "raised"
    /\ (outcome = "returned" /\ analysis.provenance = "external") => ~analysis.error
    /\ (outcome = "returned" /\ surface.fail \in {"nav", "type", "submit"})
          => analysis = Fallback

(***************************************************************************)
(* BATCH LOOPS                                                             *)
(***************************************************************************)

\* How one merge request behaves: "ok" - reachable and documented;
\* "inaccessible" - the accessibility check (or the scraper) reports it
\* unreachable; "raises" - reachable, but generating its document raises.
Fates == {"ok", "inaccessible", "raises"}

MrLists == UNION {[1..n -> Fates] : n \in 1..MaxMRs}

BatchScripts == {"improved", "completion", "doc_generator"}

Doc(i) == [mr |-> i, kind |-> "doc"]
Failed(i) == [mr |-> i, kind |-> "failed"]

InitBatch ==
    /\ script \in BatchScripts
    /\ mr_list \in MrLists
    /\ outputs = <<>>
    /\ attempted = {}
    /\ pos = 1
    /\ phase = IF script = "doc_generator" THEN "check" ELSE "process"
    /\ outcome = "running"
    /\ AccessIdle
    /\ AnalysisIdle
    /\ SynthIdle
    /\ ClassifyIdle
    /\ ExtIdle

BatchFrame ==
    /\ UNCHANGED <<script, mr_list>>
    /\ UNCHANGED <<api_access_working, browser_session_available, skip_browser,
                   ssl_verify, result, lastCall, calls>>
    /\ UNCHANGED <<analysisVars, synthVars, classifyVars, extVars>>

\* gitlab_mr_generator_improved.py generate_documentation, one iteration:
\* generate_documentation_for_mr turns an unreachable merge request and any
\* exception into a text starting with "Error", which is appended as a
\* FAILED section; any other text is appended as the document.
generate_documentation_entry(i, fate) ==
    IF fate = "ok"
    THEN [out |-> <<Doc(i)>>, next |-> i + 1]
    ELSE [out |-> <<Failed(i)>>, next |-> i + 1]

GenerateDocumentationStep ==
    /\ script = "improved" /\ phase = "process" /\ pos <= Len(mr_list)
    /\ LET e == generate_documentation_entry(pos, mr_list[pos])
       IN /\ outputs' = outputs \o e.out
          /\ pos' = e.next
    /\ attempted' = attempted \cup {pos}
    /\ UNCHANGED <<phase, outcome>>
    /\ BatchFrame

\* gitlab_mr_completion.py DocumentationGenerator.process_mr_list (first
\* definition), one iteration: no data or an exception is logged and the
\* loop continues; only a written document is appended to processed_mrs.
ProcessMrListStep ==
    /\ script = "completion" /\ phase = "process" /\ pos <= Len(mr_list)
    /\ outputs' = IF mr_list[pos] = "ok" THEN Append(outputs, Doc(pos)) ELSE outputs
    /\ attempted' = attempted \cup {pos}
    /\ pos' = pos + 1
    /\ UNCHANGED <<phase, outcome>>
    /\ BatchFrame

\* gitlab_mr_doc_generator.py generate_documentation_for_multiple_mrs, first
\* loop: every merge request is checked; an unreachable one gets its error
\* message stored in documentation_results right away.
CheckAllStep ==
    /\ script = "doc_generator" /\ phase = "check" /\ pos <= Len(mr_list)
    /\ outputs' = IF mr_list[pos] = "inaccessible"
                  THEN Append(outputs, Failed(pos)) ELSE outputs
    /\ attempted' = attempted \cup {pos}
    /\ pos' = pos + 1
    /\ UNCHANGED <<phase, outcome>>
    /\ BatchFrame

\* ... between the loops: return at once when nothing is accessible,
\* otherwise walk the accessible merge requests.
CheckAllDone ==
    /\ script = "doc_generator" /\ phase = "check" /\ pos > Len(mr_list)
    /\ IF \A i \in 1..Len(mr_list) : mr_list[i] = "inaccessible"
       THEN phase' = "end" /\ outcome' = "done"
       ELSE phase' = "process" /\ outcome' = outcome
    /\ pos' = 1
    /\ UNCHANGED <<outputs, attempted>>
    /\ BatchFrame

\* ... second loop, over accessible_mrs in list order: the document, or the
\* text made from a caught exception, is stored under the merge request key.
ProcessAccessibleStep ==
    /\ script = "doc_generator" /\ phase = "process" /\ pos <= Len(mr_list)
    /\ outputs' = CASE mr_list[pos] = "ok" -> Append(outputs, Doc(pos))
                    [] mr_list[pos] = "raises" -> Append(outputs, Failed(pos))
                    [] OTHER -> outputs
    /\ pos' = pos + 1
    /\ UNCHANGED <<attempted, phase, outcome>>
    /\ BatchFrame

\* The loop is over: the summary is written and the run's results stand.
BatchDone ==
    /\ phase = "process" /\ pos > Len(mr_list)
    /\ phase' = "end"
    /\ outcome' = "done"
    /\ UNCHANGED <<outputs, attempted, pos>>
    /\ BatchFrame

BatchNext ==
    \/ GenerateDocumentationStep
    \/ ProcessMrListStep
    \/ CheckAllStep
    \/ CheckAllDone
    \/ ProcessAccessibleStep
    \/ BatchDone

BatchSpec == InitBatch /\ [][BatchNext]_vars

(***************************************************************************)
(* Claims about the batch loops                                            *)
(***************************************************************************)

\* C7: a merge request that is unreachable or whose processing fails is
\* recorded as a failure in the run's results and never aborts the batch:
\* every merge request of the input is processed.
C7_FailuresRecordedBatchContinues ==
    outcome = "done" =>
        /\ attempted = 1..Len(mr_list)
        /\ \A i \in 1..Len(mr_list) :
              mr_list[i] # "ok" => \E k \in 1..Len(outputs) : outputs[k] = Failed(i)

\* C8: the order of the per-merge-request outputs (documents and recorded
\* failures) equals the order of the merge requests in the input list.
C8_OutputOrderIsInputOrder ==
    outcome = "done" =>
        \A k \in 1..Len(outputs), l \in 1..Len(outputs) :
            k < l => outputs[k].mr < outputs[l].mr

(***************************************************************************)
(* TEMPLATE (FALLBACK) DOCUMENTS                                           *)
(***************************************************************************)

Titles == {"Fix login bug", "Add cache"}

\* The inputs of a generator call: the title stands for the metadata, the
\* number of changed files for the change list.
SynthInputs == [title : Titles, nfiles : 0..MaxFiles]

\* Files listed by name before "... and K more"
FallbackListCap == 10
EnhancedListCap == 25

Min(a, b) == IF a < b THEN a ELSE b

\* gitlab_mr_generator_improved.py generate_fallback_documentation: the text
\* is built from mr_info and java_changes only.
generate_fallback_documentation(in) ==
    [title |-> in.title,
     listed |-> Min(in.nfiles, FallbackListCap),
     more |-> IF in.nfiles > FallbackListCap THEN in.nfiles - FallbackListCap ELSE 0,
     generated_on |-> "absent"]

\* gitlab_mr_enhanced.py _generate_enhanced_documentation: the closing line
\* carries datetime.now() formatted to the second.
generate_enhanced_documentation(in, now) ==
    [title |-> in.title,
     listed |-> Min(in.nfiles, EnhancedListCap),
     more |-> IF in.nfiles > EnhancedListCap THEN in.nfiles - EnhancedListCap ELSE 0,
     generated_on |-> now]

SynthScripts == {"improved", "enhanced_api"}

InitSynth ==
    /\ script \in SynthScripts
    /\ synthIn \in SynthInputs
    /\ clock = 0
    /\ docs = <<>>
    /\ outcome = "idle"
    /\ AccessIdle
    /\ AnalysisIdle
    /\ BatchIdle
    /\ ClassifyIdle
    /\ ExtIdle

SynthFrame ==
    /\ UNCHANGED <<script, outcome, synthIn>>
    /\ UNCHANGED <<api_access_working, browser_session_available, skip_browser,
                   ssl_verify, result, lastCall, calls>>
    /\ UNCHANGED <<analysisVars, batchVars, classifyVars, extVars>>

\* Time passes between two calls.
Tick ==
    /\ clock < MaxClock
    /\ clock' = clock + 1
    /\ UNCHANGED docs
    /\ SynthFrame

\* A call of generate_fallback_documentation with the inputs of the run.
GenerateFallbackDocumentation ==
    /\ script = "improved"
    /\ Len(docs) < 2
    /\ docs' = Append(docs, generate_fallback_documentation(synthIn))
    /\ UNCHANGED clock
    /\ SynthFrame

\* A call of _generate_enhanced_documentation with the inputs of the run.
GenerateEnhancedDocumentation ==
    /\ script = "enhanced_api"
    /\ Len(docs) < 2
    /\ docs' = Append(docs, generate_enhanced_documentation(synthIn, clock))
    /\ UNCHANGED clock
    /\ SynthFrame

SynthNext ==
    \/ Tick
    \/ GenerateFallbackDocumentation
    \/ GenerateEnhancedDocumentation

SynthSpec == InitSynth /\ [][SynthNext]_vars

\* C9: two calls of the fallback synthesizer with identical metadata and
\* changes return identical documents.
C9_SynthesizerDeterministic ==
    Len(docs) = 2 => docs[1] = docs[2]

(***************************************************************************)
(* CHANGE CLASSIFIER                                                       *)
(***************************************************************************)

\* A flag of a change entry of the API answer: missing, false or true.
FlagValues == {"absent", "false", "true"}

\* change.get(key, False) read as a condition
Truthy(v) == v = "true"

\* What the code looks at in a file path and its diff.  ext: the text after
\* the last dot; test, config, doc: the lower-cased path holds one of the test
\* markers ('test', 'spec', '__tests__'), of the configuration markers
\* ('config', 'properties', 'yml', 'yaml'), of the documentation markers
\* ('readme', 'doc', 'docs', '.md'); spring, react: is_spring_boot_file and
\* is_react_file find one of their path indicators or diff patterns.
Exts == {".java", ".js", ".html", ".json", ".py"}

PlainPath ==
    [ext |-> ".py", test |-> FALSE, config |-> FALSE, doc |-> FALSE,
     spring |-> FALSE, react |-> FALSE]

Paths ==
    [ext : {".java", ".json"}, test : BOOLEAN, config : BOOLEAN,
     doc : BOOLEAN, spring : {FALSE}, react : {FALSE}]
    \cup
    [ext : Exts, test : {FALSE}, config : {FALSE}, doc : {FALSE},
     spring : BOOLEAN, react : BOOLEAN]

\* The entries of the 'changes' list: every combination of the flags on a
\* plain path, and every path with the flags missing.
ChangeEntries ==
    [new_file : FlagValues, deleted_file : FlagValues, renamed_file : FlagValues,
     path : {PlainPath}]
    \cup
    [new_file : {"absent"}, deleted_file : {"absent"}, renamed_file : {"absent"},
     path : Paths]

ChangeLists == UNION {[1..n -> ChangeEntries] : n \in 0..MaxFiles}

\* Mutant of determine_change_type: the deleted flag is tested first.
determine_change_type_deletedFirst(change) ==
    IF Truthy(change.deleted_file) THEN "deleted"
    ELSE IF Truthy(change.new_file) THEN "added"
    ELSE IF Truthy(change.renamed_file) THEN "renamed"
    ELSE "modified"

\* gitlab_mr_missing_code.py determine_change_type
determine_change_type(change) ==
    IF Truthy(change.new_file) THEN "added"
    ELSE IF Truthy(change.deleted_file) THEN "deleted"
    ELSE IF Truthy(change.renamed_file) THEN "renamed"
    ELSE "modified"

\* SUPPORTED_FILE_EXTENSIONS, walked in the order of the dict: the first type
\* whose extension list holds the extension.
primary_file_type(ext) ==
    CASE ext = ".java" -> "java"
      [] ext \in {".js", ".jsx", ".ts", ".tsx"} -> "javascript"
      [] ext \in {".html", ".css", ".scss", ".sass"} -> "frontend"
      [] ext \in {".json", ".yml", ".yaml", ".xml", ".properties"} -> "config"
      [] OTHER -> "unknown"

\* Mutant of categorize_file: the configuration test comes before the test
\* markers.
categorize_file_configFirst(path, file_type) ==
    IF file_type = "config" \/ path.config THEN "configuration"
    ELSE IF path.test THEN "test"
    ELSE IF path.doc THEN "documentation"
    ELSE IF file_type \in {"react", "frontend", "javascript"} THEN "frontend"
    ELSE IF file_type \in {"java", "spring"} THEN "backend"
    ELSE "other"

\* gitlab_mr_missing_code.py categorize_file
categorize_file(path, file_type) ==
    IF path.test THEN "test"
    ELSE IF file_type = "config" \/ path.config THEN "configuration"
    ELSE IF path.doc THEN "documentation"
    ELSE IF file_type \in {"react", "frontend", "javascript"} THEN "frontend"
    ELSE IF file_type \in {"java", "spring"} THEN "backend"
    ELSE "other"

\* gitlab_mr_missing_code.py analyze_file_type: the primary type, turned
\* into 'spring' for a Java file that is_spring_boot_file accepts, then into
\* 'react' for a .jsx/.tsx file or one that is_react_file accepts.
analyze_file_type(path) ==
    LET t1 == primary_file_type(path.ext)
        t2 == IF (t1 = "java" \/ path.ext = ".java") /\ path.spring THEN "spring" ELSE t1
        t3 == IF path.ext \in {".jsx", ".tsx"} \/ path.react THEN "react" ELSE t2
    IN [type |-> t3, category |-> categorize_file(path, t3)]

InitClassify ==
    /\ script = "missing_code"
    /\ changes \in ChangeLists
    /\ processed_changes = <<>>
    /\ outcome = "running"
    /\ AccessIdle
    /\ AnalysisIdle
    /\ BatchIdle
    /\ SynthIdle
    /\ ExtIdle

ClassifyFrame ==
    /\ UNCHANGED <<script, changes>>
    /\ UNCHANGED <<api_access_working, browser_session_available, skip_browser,
                   ssl_verify, result, lastCall, calls>>
    /\ UNCHANGED <<analysisVars, batchVars, synthVars, extVars>>

\* gitlab_mr_missing_code.py process_file_changes, one iteration of its loop
ProcessFileChange ==
    /\ outcome = "running"
    /\ Len(processed_changes) < Len(changes)
    /\ LET change == changes[Len(processed_changes) + 1]
       IN processed_changes' =
            Append(processed_changes,
                   [file_path |-> change.path,
                    change_type |-> determine_change_type(change),
                    file_type |-> analyze_file_type(change.path).type,
                    file_category |-> analyze_file_type(change.path).category,
                    additions |-> Truthy(change.new_file),
                    deletions |-> Truthy(change.deleted_file),
                    renamed |-> Truthy(change.renamed_file)])
    /\ UNCHANGED outcome
    /\ ClassifyFrame

\* ... the loop is over and processed_changes is returned
ProcessFileChangesReturn ==
    /\ outcome = "running"
    /\ Len(processed_changes) = Len(changes)
    /\ outcome' = "returned"
    /\ UNCHANGED processed_changes
    /\ ClassifyFrame

ClassifyNext == ProcessFileChange \/ ProcessFileChangesReturn

ClassifySpec == InitClassify /\ [][ClassifyNext]_vars

\* C10: the change kind follows the priority added > deleted > renamed >
\* modified for every combination of the three flags.
C10_ChangeKindPriority ==
    \A k \in 1..Len(processed_changes) :
        LET c == changes[k]
            kind == processed_changes[k].change_type
        IN /\ Truthy(c.new_file) => kind = "added"
           /\ (~Truthy(c.new_file) /\ Truthy(c.deleted_file)) => kind = "deleted"
           /\ (~Truthy(c.new_file) /\ ~Truthy(c.deleted_file) /\ Truthy(c.renamed_file))
                 => kind = "renamed"
           /\ (~Truthy(c.new_file) /\ ~Truthy(c.deleted_file) /\ ~Truthy(c.renamed_file))
                 => kind = "modified"

\* C10 witness: an entry with all three flags set was classified as added,
\* and one with the deleted and renamed flags set as deleted.
C10_Witness ==
    /\ outcome = "returned"
    /\ \E k \in 1..Len(processed_changes) :
          /\ Truthy(changes[k].new_file) /\ Truthy(changes[k].deleted_file)
          /\ Truthy(changes[k].renamed_file)
          /\ processed_changes[k].change_type = "added"
    /\ \E k \in 1..Len(processed_changes) :
          /\ ~Truthy(changes[k].new_file) /\ Truthy(changes[k].deleted_file)
          /\ Truthy(changes[k].renamed_file)
          /\ processed_changes[k].change_type = "deleted"

Categories == {"test", "configuration", "documentation", "frontend", "backend", "other"}

\* C11: every processed file change carries exactly one category out of
\* test, configuration, documentation, frontend, backend and other, and it is
\* the first bucket of that priority order that matches the path and the
\* detected file type.
C11_CategoryIsFirstMatch ==
    \A k \in 1..Len(processed_changes) :
        LET p == processed_changes[k].file_path
            t == processed_changes[k].file_type
            cat == processed_changes[k].file_category
            isTest == p.test
            isConfig == t = "config" \/ p.config
            isDoc == p.doc
            isFrontend == t \in {"react", "frontend", "javascript"}
            isBackend == t \in {"java", "spring"}
        IN /\ cat \in Categories
           /\ isTest => cat = "test"
           /\ (~isTest /\ isConfig) => cat = "configuration"
           /\ (~isTest /\ ~isConfig /\ isDoc) => cat = "documentation"
           /\ (~isTest /\ ~isConfig /\ ~isDoc /\ isFrontend) => cat = "frontend"
           /\ (~isTest /\ ~isConfig /\ ~isDoc /\ ~isFrontend /\ isBackend)
                 => cat = "backend"
           /\ (~isTest /\ ~isConfig /\ ~isDoc /\ ~isFrontend /\ ~isBackend)
                 => cat = "other"

\* C11 witness: a Java file whose path holds test, configuration and
\* documentation markers was put in the test bucket, and a configuration
\* file (.json) whose path holds a documentation marker in configuration.
C11_Witness ==
    /\ outcome = "returned"
    /\ \E k \in 1..Len(processed_changes) :
          /\ changes[k].path.ext = ".java"
          /\ changes[k].path.test /\ changes[k].path.config /\ changes[k].path.doc
          /\ processed_changes[k].file_category = "test"
    /\ \E k \in 1..Len(processed_changes) :
          /\ changes[k].path.ext = ".json"
          /\ ~changes[k].path.test /\ ~changes[k].path.config /\ changes[k].path.doc
          /\ processed_changes[k].file_category = "configuration"

(***************************************************************************)
(* LINE COUNTS OF THE DIFFS (gitlab_mr_enhanced.py _process_mr_data)       *)
(***************************************************************************)

\* longest diff, in lines
MaxDiffLines == 2

\* A line of a diff is the sequence of its characters.  The lines a unified
\* diff is made of: an empty line, a context line, added and removed lines
\* (with text and bare), and the two file-header lines.
DiffLineSet ==
    { <<>>, <<" ", "x">>, <<"+", "x">>, <<"-", "x">>, <<"+">>, <<"-">>,
      <<"+", "+", "+", " ", "b">>, <<"-", "-", "-", " ", "a">> }

\* A diff text is the list of its lines (the text split at the line feeds);
\* the empty text is the single empty line.
EmptyDiff == << <<>> >>

Diffs == UNION {[1..n -> DiffLineSet] : n \in 1..MaxDiffLines}

\* str.startswith
startswith(line, prefix) ==
    /\ Len(line) >= Len(prefix)
    /\ SubSeq(line, 1, Len(prefix)) = prefix

\* diff.split('\n') if diff else []
split_lines(d) == IF d = EmptyDiff THEN <<>> ELSE d

\* Mutant of count_additions: the '+++' header line is not excluded.
RECURSIVE count_additions_withHeader(_)
count_additions_withHeader(diff_lines) ==
    IF diff_lines = <<>> THEN 0
    ELSE (IF startswith(Head(diff_lines), <<"+">>) THEN 1 ELSE 0)
         + count_additions_withHeader(Tail(diff_lines))

\* len([line for line in diff_lines if keep(line)]) for the two filters of
\* _process_mr_data, walking the list from its head.
RECURSIVE count_additions(_)
count_additions(diff_lines) ==
    IF diff_lines = <<>> THEN 0
    ELSE (IF startswith(Head(diff_lines), <<"+">>)
             /\ ~startswith(Head(diff_lines), <<"+", "+", "+">>)
          THEN 1 ELSE 0) + count_additions(Tail(diff_lines))

RECURSIVE count_deletions(_)
count_deletions(diff_lines) ==
    IF diff_lines = <<>> THEN 0
    ELSE (IF startswith(Head(diff_lines), <<"-">>)
             /\ ~startswith(Head(diff_lines), <<"-", "-", "-">>)
          THEN 1 ELSE 0) + count_deletions(Tail(diff_lines))

InitDiff ==
    /\ script = "enhanced_api"
    /\ outcome = "running"
    /\ DiffIdle
    /\ PromptIdle
    /\ PollIdle
    /\ ProbeIdle
    /\ AccessIdle
    /\ AnalysisIdle
    /\ BatchIdle
    /\ SynthIdle
    /\ ClassifyIdle
    /\ LateIdle

DiffFrame ==
    /\ UNCHANGED script
    /\ UNCHANGED <<api_access_working, browser_session_available, skip_browser,
                   ssl_verify, result, lastCall, calls>>
    /\ UNCHANGED <<analysisVars, batchVars, synthVars, classifyVars, promptVars, pollVars,
                   probeVars>>
    /\ UNCHANGED lateVars

\* _process_mr_data, one iteration of the loop over changes_data['changes']:
\* the diff of the next change is split and counted, the totals grow and
\* the entry is appended.
ProcessMrDataChange ==
    /\ outcome = "running"
    /\ nchanges < MaxFiles
    /\ \E d \in Diffs :
          LET diff_lines == split_lines(d)
              a == count_additions(diff_lines)
              r == count_deletions(diff_lines)
          IN /\ diff' = d
             /\ additions' = a
             /\ deletions' = r
             /\ total_additions' = total_additions + a
             /\ total_deletions' = total_deletions + r
    /\ nchanges' = nchanges + 1
    /\ UNCHANGED outcome
    /\ DiffFrame

\* ... the loop is over and the MRData is returned
ProcessMrDataReturn ==
    /\ outcome = "running"
    /\ outcome' = "returned"
    /\ UNCHANGED diffVars
    /\ DiffFrame

DiffNext == ProcessMrDataChange \/ ProcessMrDataReturn

DiffSpec == InitDiff /\ [][DiffNext]_vars

PlusLines(d) ==
    {i \in 1..Len(d) : Len(d[i]) >= 1 /\ d[i][1] = "+"
                       /\ ~(Len(d[i]) >= 3 /\ d[i][2] = "+" /\ d[i][3] = "+")}

MinusLines(d) ==
    {i \in 1..Len(d) : Len(d[i]) >= 1 /\ d[i][1] = "-"
                       /\ ~(Len(d[i]) >= 3 /\ d[i][2] = "-" /\ d[i][3] = "-")}

HeaderLine(l) == l \in {<<"+", "+", "+", " ", "b">>, <<"-", "-", "-", " ", "a">>}

\* C12: for every diff the addition count is the number of lines starting
\* with '+' but not '+++' and the deletion count the number of lines
\* starting with '-' but not '---'; the empty diff and a diff of header
\* lines only give (0,0).
C12_CountLines ==
    nchanges > 0 =>
        /\ additions = Cardinality(PlusLines(diff))
        /\ deletions = Cardinality(MinusLines(diff))
        /\ diff = EmptyDiff => (additions = 0 /\ deletions = 0)
        /\ (\A i \in 1..Len(diff) : HeaderLine(diff[i]))
              => (additions = 0 /\ deletions = 0)

\* C12 witness: a diff made of a '+++' header line and one added line was
\* counted as one addition and no deletion.
C12_Witness ==
    /\ nchanges > 0
    /\ diff = << <<"+", "+", "+", " ", "b">>, <<"+", "x">> >>
    /\ additions = 1 /\ deletions = 0

(***************************************************************************)
(* PROMPT CONSTRUCTION (extract_java_changes and the prompt builders)      *)
(***************************************************************************)

\* Lengths of the diff texts, around the limits the prompt builders use
DiffLens == {0, 1500, 2000, 2001, 2600, 2999, 3000, 3001}

\* An entry of the 'changes' list: whether old_path and new_path end with
\* '.java', and the length of the diff.
ChangeData ==
    [old_java : {TRUE}, new_java : {TRUE}, difflen : DiffLens]
    \cup
    {[old_java |-> o, new_java |-> n, difflen |-> 2600] :
        o \in BOOLEAN, n \in BOOLEAN}

ChangeDataLists == UNION {[1..n -> ChangeData] : n \in 0..MaxFiles}

\* gitlab_mr_generator_improved.py extract_java_changes: an entry is kept
\* when old_path or new_path ends with '.java'.  file is the position of the
\* entry in the input list (it stands for the path).
RECURSIVE extract_java_changes(_, _)
extract_java_changes(data, i) ==
    IF i > Len(data) THEN <<>>
    ELSE (IF data[i].old_java \/ data[i].new_java
          THEN <<[file |-> i, difflen |-> data[i].difflen]>>
          ELSE <<>>) \o extract_java_changes(data, i + 1)

\* gitlab_mr_doc_generator.py extract_java_changes: an entry is kept when
\* new_path ends with '.java'.
RECURSIVE extract_java_changes_doc(_, _)
extract_java_changes_doc(data, i) ==
    IF i > Len(data) THEN <<>>
    ELSE (IF data[i].new_java
          THEN <<[file |-> i, difflen |-> data[i].difflen]>>
          ELSE <<>>) \o extract_java_changes_doc(data, i + 1)

\* java_changes[:5]
PromptFileCap == 5
\* gitlab_mr_doc_generator.py: change['diff'][:2000]
DocDiffCap == 2000
\* gitlab_mr_generator_improved.py: len(change['diff']) < 3000, else [:1500]
ImprovedDiffLimit == 3000
ImprovedCutLen == 1500

\* Mutant of diff_block_doc: the '...' is never appended.
diff_block_doc_noMarker(change) ==
    <<[file |-> change.file, shown |-> Min(change.difflen, DocDiffCap),
       marker |-> FALSE]>>

\* gitlab_mr_doc_generator.py analyze_code_changes_with_gemini, the diff
\* block of one file: the first 2000 characters, and '...' after them when
\* the diff is longer.
diff_block_doc(change) ==
    <<[file |-> change.file, shown |-> Min(change.difflen, DocDiffCap),
       marker |-> change.difflen > DocDiffCap]>>

\* gitlab_mr_generator_improved.py create_gemini_prompt, the diff block of
\* one file: a diff shorter than 3000 whole, a longer one cut to 1500 with
\* "...\n[Diff truncated for brevity]"; an empty diff gets no block.
diff_block(change) ==
    IF change.difflen = 0 THEN <<>>
    ELSE IF change.difflen < ImprovedDiffLimit
    THEN <<[file |-> change.file, shown |-> Min(change.difflen, ImprovedDiffLimit),
            marker |-> FALSE]>>
    ELSE <<[file |-> change.file, shown |-> Min(change.difflen, ImprovedCutLen),
            marker |-> TRUE]>>

\* The blocks of the first PromptFileCap files, in list order.
RECURSIVE create_gemini_prompt(_, _)
create_gemini_prompt(jc, i) ==
    IF i > Min(Len(jc), PromptFileCap) THEN <<>>
    ELSE diff_block(jc[i]) \o create_gemini_prompt(jc, i + 1)

RECURSIVE build_prompt_doc(_, _)
build_prompt_doc(jc, i) ==
    IF i > Min(Len(jc), PromptFileCap) THEN <<>>
    ELSE diff_block_doc(jc[i]) \o build_prompt_doc(jc, i + 1)

PromptScripts == {"improved", "doc_generator"}

InitPrompt ==
    /\ script \in PromptScripts
    /\ outcome = "running"
    /\ changes_data \in ChangeDataLists
    /\ java_changes = <<>>
    /\ prompt = <<>>
    /\ DiffIdle
    /\ PollIdle
    /\ ProbeIdle
    /\ AccessIdle
    /\ AnalysisIdle
    /\ BatchIdle
    /\ SynthIdle
    /\ ClassifyIdle
    /\ LateIdle

PromptFrame ==
    /\ UNCHANGED <<script, changes_data>>
    /\ UNCHANGED <<api_access_working, browser_session_available, skip_browser,
                   ssl_verify, result, lastCall, calls>>
    /\ UNCHANGED <<analysisVars, batchVars, synthVars, classifyVars, diffVars, pollVars,
                   probeVars>>
    /\ UNCHANGED lateVars

\* generate_documentation_for_mr: java_changes = extract_java_changes(...)
ExtractJavaChanges ==
    /\ outcome = "running"
    /\ java_changes' = IF script = "improved"
                       THEN extract_java_changes(changes_data, 1)
                       ELSE extract_java_changes_doc(changes_data, 1)
    /\ outcome' = "extracted"
    /\ UNCHANGED prompt
    /\ PromptFrame

\* gitlab_mr_generator_improved.py analyze_code_changes_with_gemini: no
\* prompt is built for an empty list (the fallback document is returned).
CreateGeminiPrompt ==
    /\ script = "improved" /\ outcome = "extracted"
    /\ prompt' = create_gemini_prompt(java_changes, 1)
    /\ outcome' = IF java_changes = <<>> THEN "no prompt" ELSE "prompt"
    /\ UNCHANGED java_changes
    /\ PromptFrame

\* gitlab_mr_doc_generator.py analyze_code_changes_with_gemini builds its
\* prompt for every list generate_documentation_for_mr hands to it.
BuildPromptDoc ==
    /\ script = "doc_generator" /\ outcome = "extracted"
    /\ prompt' = build_prompt_doc(java_changes, 1)
    /\ outcome' = "prompt"
    /\ UNCHANGED java_changes
    /\ PromptFrame

PromptNext == ExtractJavaChanges \/ CreateGeminiPrompt \/ BuildPromptDoc

PromptSpec == InitPrompt /\ [][PromptNext]_vars

\* C13: the output list of the change extraction has exactly one entry per
\* input entry, in the order of the input; no input file change is skipped.
C13_OneEntryPerInputInOrder ==
    outcome \in {"extracted", "prompt", "no prompt"} =>
        /\ Len(java_changes) = Len(changes_data)
        /\ \A k \in 1..Len(java_changes) : java_changes[k].file = k

\* The truncation cap of the running script: gitlab_mr_doc_generator.py
\* shows at most 2000 characters of a diff, gitlab_mr_generator_improved.py
\* shows a diff whole only below 3000 characters.
DiffCapOf(s) == IF s = "doc_generator" THEN DocDiffCap ELSE ImprovedDiffLimit

\* C14: in every constructed prompt no file's diff text is longer than the
\* truncation cap of the script, and every diff that was cut is followed by
\* the truncation marker; with the cap 2000 a 2600-character diff appears
\* as 2000 characters plus the marker.
C14_DiffsCappedAndMarked ==
    outcome = "prompt" =>
        \A b \in 1..Len(prompt) :
            LET original == changes_data[prompt[b].file].difflen
            IN /\ prompt[b].shown <= DiffCapOf(script)
               /\ prompt[b].shown <= original
               /\ prompt[b].shown < original => prompt[b].marker
               /\ (DiffCapOf(script) = 2000 /\ original = 2600)
                     => (prompt[b].shown = 2000 /\ prompt[b].marker)

\* C14 witness: a prompt of gitlab_mr_doc_generator.py holds a 2600-character
\* diff as 2000 characters followed by the marker.
C14_Witness ==
    /\ script = "doc_generator" /\ outcome = "prompt"
    /\ \E b \in 1..Len(prompt) :
          /\ changes_data[prompt[b].file].difflen = 2600
          /\ prompt[b].shown = 2000 /\ prompt[b].marker

(***************************************************************************)
(* RESPONSE POLLING (the wait loops after a prompt was submitted)          *)
(***************************************************************************)

\* gitlab_mr_doc_generator.py send_prompt_to_gemini_web: max_wait_time and
\* the sleep of every iteration
DocMaxWait == 180
DocPollSleep == 3
\* gitlab_mr_complete.py send_prompt_to_gemini_web
CompleteMaxWait == 180
CompletePollSleep == 3
\* gitlab_mr_generator_improved.py get_gemini_response: timeout and sleep
ImprovedTimeout == 120
ImprovedPollSleep == 2
\* gitlab_mr_existing_profile.py send_prompt_to_gemini_web
ExistingMaxWait == 180
ExistingPollSleep == 3

\* What one iteration finds on the page.  raises: a page query raises;
\* loading: a loading indicator is there; response: no response element,
\* one with empty text, or one with text (for get_gemini_response: a text
\* longer than 100 that does not end with "...").
Observations ==
    [raises : {FALSE}, loading : BOOLEAN, response : {"none", "empty", "text"}]
    \cup {[raises |-> TRUE, loading |-> FALSE, response |-> "none"]}

\* Mutant of poll_iteration_doc: the except clause of the loop does not
\* sleep.
poll_iteration_doc_noSleepOnError(obs) ==
    IF obs.raises THEN [ends |-> "polling", sleep |-> 0]
    ELSE IF ~obs.loading /\ obs.response # "none" THEN [ends |-> "broke", sleep |-> 0]
    ELSE [ends |-> "polling", sleep |-> DocPollSleep]

\* gitlab_mr_doc_generator.py send_prompt_to_gemini_web, the body of the
\* while loop: break when no loading indicator and a response element is
\* found; otherwise, and in the except clause, sleep.
poll_iteration_doc(obs) ==
    IF obs.raises THEN [ends |-> "polling", sleep |-> DocPollSleep]
    ELSE IF ~obs.loading /\ obs.response # "none" THEN [ends |-> "broke", sleep |-> 0]
    ELSE [ends |-> "polling", sleep |-> DocPollSleep]

\* gitlab_mr_complete.py send_prompt_to_gemini_web, the body of the while
\* loop: break when no loading indicator and a response element with text
\* is found; every other path sleeps.
poll_iteration_complete(obs) ==
    IF obs.raises THEN [ends |-> "polling", sleep |-> CompletePollSleep]
    ELSE IF ~obs.loading /\ obs.response = "text" THEN [ends |-> "broke", sleep |-> 0]
    ELSE [ends |-> "polling", sleep |-> CompletePollSleep]

\* gitlab_mr_generator_improved.py get_gemini_response, the body of the
\* while loop: return the complete text; a raising query leaves the function
\* through its except clause; otherwise sleep.
poll_iteration_improved(obs) ==
    IF obs.raises THEN [ends |-> "raised", sleep |-> 0]
    ELSE IF obs.response = "text" THEN [ends |-> "returned", sleep |-> 0]
    ELSE [ends |-> "polling", sleep |-> ImprovedPollSleep]

\* gitlab_mr_existing_profile.py send_prompt_to_gemini_web, the body of the
\* while loop: return the extracted text when it is longer than 100
\* characters; otherwise, and in the except clause, sleep.
poll_iteration_existing(obs) ==
    IF obs.raises THEN [ends |-> "polling", sleep |-> ExistingPollSleep]
    ELSE IF obs.response = "text" THEN [ends |-> "returned", sleep |-> 0]
    ELSE [ends |-> "polling", sleep |-> ExistingPollSleep]

\* What the analysis step hands on once the loop is over.  late: the page
\* as the extraction after the loop finds it.
\* doc_generator and complete: extract_gemini_response, then
\* extract_gemini_response_alternative, are run whether the loop broke or
\* ran out of time, and their text is returned.
\* improved: the text found in the loop; "" after the timeout or an
\* exception, which makes analyze_code_changes_with_gemini generate the
\* fallback document.
\* existing_profile: the text found in the loop; after the timeout the
\* string "Response timeout or not found", which
\* analyze_code_changes_with_gemini returns as the documentation.
after_poll(s, state, late) ==
    CASE s \in {"doc_generator", "complete"} ->
            IF late.raises THEN "error text" ELSE "page text"
      [] s = "improved" ->
            IF state = "returned" THEN "page text" ELSE "fallback"
      [] OTHER ->
            IF state = "returned" THEN "page text" ELSE "timeout message"

PollScripts == {"doc_generator", "complete", "improved", "existing_profile"}

InitPoll ==
    /\ script \in PollScripts
    /\ outcome = "running"
    /\ elapsed = 0
    /\ poll_state = "polling"
    /\ seen = <<>>
    /\ iteration = 0
    /\ poll_result = "none"
    /\ DiffIdle
    /\ PromptIdle
    /\ ProbeIdle
    /\ AccessIdle
    /\ AnalysisIdle
    /\ BatchIdle
    /\ SynthIdle
    /\ ClassifyIdle
    /\ LateIdle

PollFrame ==
    /\ UNCHANGED script
    /\ UNCHANGED <<api_access_working, browser_session_available, skip_browser,
                   ssl_verify, result, lastCall, calls>>
    /\ UNCHANGED <<analysisVars, batchVars, synthVars, classifyVars, diffVars, promptVars,
                   probeVars>>
    /\ UNCHANGED lateVars

\* One evaluation of the loop condition and, when it holds, one iteration.
Poll(s, max_wait, it) ==
    /\ script = s /\ poll_state = "polling"
    /\ IF elapsed < max_wait
       THEN /\ poll_state' = it.ends
            /\ elapsed' = elapsed + it.sleep
            /\ iteration' = (iteration + 1) % 2
       ELSE /\ poll_state' = "timed out"
            /\ UNCHANGED <<elapsed, iteration>>
    /\ UNCHANGED <<outcome, poll_result>>
    /\ PollFrame

PollDoc ==
    \E obs \in Observations :
        /\ Poll("doc_generator", DocMaxWait, poll_iteration_doc(obs))
        /\ seen' = IF elapsed < DocMaxWait THEN obs ELSE seen

PollComplete ==
    \E obs \in Observations :
        /\ Poll("complete", CompleteMaxWait, poll_iteration_complete(obs))
        /\ seen' = IF elapsed < CompleteMaxWait THEN obs ELSE seen

PollImproved ==
    \E obs \in Observations :
        /\ Poll("improved", ImprovedTimeout, poll_iteration_improved(obs))
        /\ seen' = IF elapsed < ImprovedTimeout THEN obs ELSE seen

PollExisting ==
    \E obs \in Observations :
        /\ Poll("existing_profile", ExistingMaxWait, poll_iteration_existing(obs))
        /\ seen' = IF elapsed < ExistingMaxWait THEN obs ELSE seen

\* The loop is over: the function returns to the caller of the analysis step.
PollReturn ==
    /\ poll_state \notin {"idle", "polling"}
    /\ outcome = "running"
    /\ \E late \in Observations :
          poll_result' = after_poll(script, poll_state, late)
    /\ outcome' = "returned"
    /\ UNCHANGED <<elapsed, poll_state, seen, iteration>>
    /\ PollFrame

PollNext == PollDoc \/ PollComplete \/ PollImproved \/ PollExisting \/ PollReturn

PollSpec == InitPoll /\ [][PollNext]_vars

\* The scripts are single-threaded: a running loop keeps taking its steps.
PollLiveSpec == PollSpec /\ WF_vars(PollNext)

\* C15: every response-polling loop terminates, whatever the page shows
\* and whatever errors the page queries raise.
C15_PollingTerminates == <>(poll_state # "polling")

\* C15 witness: a loop whose last page query raised ended by its maximum
\* wait.
C15_Witness ==
    /\ script = "doc_generator"
    /\ poll_state = "timed out"
    /\ elapsed >= DocMaxWait
    /\ seen # <<>> /\ seen.raises

\* C26: a polling loop declares the response complete before the maximum
\* wait only in an iteration in which no loading indicator is present and
\* response content is present.
C26_CompleteOnlyWhenIdleAndContent ==
    poll_state \in {"broke", "returned"}
        => (~seen.loading /\ seen.response # "none")

\* C27: when polling ran past the maximum wait the analysis step still
\* returns (the run is not aborted), and what it hands on is the fallback:
\* neither text read from the page after the timeout nor anything else
\* stands as the analysis.
C27_TimeoutGivesFallback ==
    /\ outcome # "raised"
    /\ (poll_state = "timed out" /\ outcome = "returned") => poll_result = "fallback"

(***************************************************************************)
(* CAPABILITY PROBING (verify_gitlab_authentication in the constructor)    *)
(***************************************************************************)

\* most sign-in prompts followed in the variant whose loop has no bound
MaxPrompts == 4

\* max_attempts of prompt_enhanced_signin
MaxAttempts == 3

\* Answers of GET /api/v4/user: a status, an SSL error, a connection error,
\* or another exception ("Timeout"); and of the retry without verification.
ProbeResponses == {"200", "401", "403", "500", "SSLError", "ConnectionError", "Timeout"}
RetryResponses == {"200", "403", "Timeout"}

\* What the GitLab page shows when a session check or a sign-in attempt
\* looks at it: a driver call raises, a login page, an authenticated page, or
\* a page with neither kind of indicator.
SessionPages == {"raises", "login", "authenticated", "unclear"}

Answers == {"y", "n"}

\* Mutant of handle_api_failure: with browser verification disabled it
\* returns instead of raising.
handle_api_failure_silent(skip) ==
    IF ~skip THEN "strict" ELSE "return"

\* enhanced_gitlab_mr_generator.py handle_api_failure (after it has set
\* api_access_working to False): the strict browser check, or a raise when
\* browser verification is disabled.
handle_api_failure(skip) ==
    IF ~skip THEN "strict" ELSE "raise"

\* handle_api_failure called in a try body (in_try) or in an except clause:
\* a raise in a try body of verify_gitlab_authentication or handle_ssl_error
\* is caught by its "except Exception", which calls handle_api_failure
\* again, and that raise propagates.
after_api_failure(skip, in_try) ==
    [api |-> FALSE, ssl_verify |-> TRUE,
     next |-> handle_api_failure(skip),
     outer |-> in_try /\ handle_api_failure(skip) = "strict"]

\* enhanced_gitlab_mr_generator.py verify_gitlab_authentication and
\* handle_ssl_error, up to the first browser session check: the value of
\* api_access_working and ssl_verify, what comes next ("return", "raise",
\* "enhanced" or "strict" session check) and whether an except clause of
\* these two functions still lies ahead of that check.
verify_gitlab_authentication(resp, retry, skip) ==
    CASE resp = "200" ->
            [api |-> TRUE, ssl_verify |-> TRUE,
             next |-> IF skip THEN "return" ELSE "enhanced", outer |-> ~skip]
      [] resp \in {"401", "403", "500"} -> after_api_failure(skip, TRUE)
      [] resp = "ConnectionError" ->
            [api |-> FALSE, ssl_verify |-> TRUE, next |-> "raise", outer |-> FALSE]
      [] resp = "SSLError" ->
            CASE retry = "200" ->
                    [api |-> TRUE, ssl_verify |-> FALSE,
                     next |-> IF skip THEN "return" ELSE "enhanced", outer |-> ~skip]
              [] retry = "403" -> after_api_failure(skip, TRUE)
              [] OTHER -> after_api_failure(skip, FALSE)
      [] OTHER -> after_api_failure(skip, FALSE)

\* gitlab_mr_doc_generator_fixed.py verify_gitlab_authentication, up to the
\* browser session check: 200 leads to the gentle check, any other status to
\* the strict check inside the try body, an exception to the strict check
\* inside the except clause.
verify_gitlab_authentication_fixed(resp) ==
    CASE resp = "200" ->
            [api |-> TRUE, ssl_verify |-> TRUE, next |-> "gentle", outer |-> TRUE]
      [] resp \in {"401", "403", "500"} ->
            [api |-> FALSE, ssl_verify |-> TRUE, next |-> "strict", outer |-> TRUE]
      [] OTHER ->
            [api |-> FALSE, ssl_verify |-> TRUE, next |-> "strict", outer |-> FALSE]

\* The first look of a browser session check at the page.
\* verify_browser_session_enhanced and check_browser_session_strict: an
\* authenticated page sets browser_session_available; a login or unclear page
\* calls the sign-in prompt inside the try body (a raise of the prompt is
\* caught and the prompt is called again); a raising driver call goes to the
\* except clause, which calls the prompt.  check_browser_session_gentle: a
\* login page and the answer 'y' call the prompt (a raise of it is swallowed);
\* a page without login indicators sets the flag; everything else clears it.
session_entry(kind, page, answer) ==
    IF kind = "gentle"
    THEN CASE page = "raises" -> [pc |-> "end", browser |-> FALSE, inner |-> "none"]
           [] page = "login" ->
                 IF answer = "y"
                 THEN [pc |-> "signin", browser |-> FALSE, inner |-> "swallow"]
                 ELSE [pc |-> "end", browser |-> FALSE, inner |-> "none"]
           [] OTHER -> [pc |-> "end", browser |-> TRUE, inner |-> "none"]
    ELSE CASE page = "authenticated" -> [pc |-> "end", browser |-> TRUE, inner |-> "none"]
           [] page = "raises" -> [pc |-> "signin", browser |-> FALSE, inner |-> "none"]
           [] OTHER -> [pc |-> "signin", browser |-> FALSE, inner |-> "retry"]

\* enhanced_gitlab_mr_generator.py prompt_enhanced_signin, one iteration of
\* its loop after the operator pressed Enter: "available" (the flag is set
\* and the loop is left), "again" (attempt += 1; continue) or "raise".
signin_attempt(page, answer, att) ==
    CASE page \in {"raises", "login"} -> IF att < MaxAttempts THEN "again" ELSE "raise"
      [] page = "authenticated" -> "available"
      [] OTHER -> IF answer = "y" THEN "available"
                  ELSE IF att < MaxAttempts THEN "again" ELSE "raise"

\* gitlab_mr_doc_generator_fixed.py prompt_gitlab_signin, one iteration of
\* its "while True" loop.
signin_attempt_fixed(page, answer) ==
    CASE page = "authenticated" -> "available"
      [] page = "raises" -> IF answer = "y" THEN "again" ELSE "raise"
      [] OTHER -> "again"

ProbeScripts == {"enhanced", "doc_generator_fixed"}

InitProbe ==
    /\ script \in ProbeScripts
    /\ api_access_working = FALSE
    /\ browser_session_available = FALSE
    /\ skip_browser \in (IF script = "enhanced" THEN BOOLEAN ELSE {FALSE})
    /\ ssl_verify = TRUE
    /\ result = <<>>
    /\ lastCall = <<>>
    /\ calls = 0
    /\ outcome = "running"
    /\ probe_pc = "start"
    /\ outer_guard = FALSE
    /\ inner_guard = "none"
    /\ attempt = 1
    /\ prompts = 0
    /\ AnalysisIdle
    /\ BatchIdle
    /\ SynthIdle
    /\ ClassifyIdle
    /\ DiffIdle
    /\ PromptIdle
    /\ PollIdle
    /\ LateIdle

ProbeFrame ==
    /\ UNCHANGED <<script, skip_browser, result, calls>>
    /\ UNCHANGED <<analysisVars, batchVars, synthVars, classifyVars>>
    /\ UNCHANGED <<diffVars, promptVars, pollVars>>
    /\ UNCHANGED lateVars

\* A browser session check starts: the flag, the position and the guards
\* after its first look at the page.
EnterSession(kind, page, answer, outer) ==
    LET e == session_entry(kind, page, answer)
    IN /\ browser_session_available' = e.browser
       /\ probe_pc' = e.pc
       /\ inner_guard' = e.inner
       /\ outer_guard' = (outer /\ e.pc = "signin")
       /\ attempt' = 1
       /\ outcome' = IF e.pc = "end" THEN "returned" ELSE "running"

\* The constructor's verify_gitlab_authentication of the enhanced script,
\* run until it returns, raises or waits for the operator.
VerifyGitlabAuthentication ==
    /\ script = "enhanced" /\ probe_pc = "start"
    /\ \E resp \in ProbeResponses, retry \in RetryResponses, page \in SessionPages :
          LET v == verify_gitlab_authentication(resp, retry, skip_browser)
          IN /\ api_access_working' = v.api
             /\ ssl_verify' = v.ssl_verify
             /\ lastCall' = [resp |-> resp, retry |-> retry]
             /\ IF v.next \in {"enhanced", "strict"}
                THEN EnterSession(v.next, page, "n", v.outer)
                ELSE /\ probe_pc' = "end"
                     /\ outcome' = IF v.next = "raise" THEN "raised" ELSE "returned"
                     /\ UNCHANGED <<browser_session_available, outer_guard,
                                    inner_guard, attempt>>
    /\ UNCHANGED prompts
    /\ ProbeFrame

\* ... of the doc_generator_fixed script.
VerifyGitlabAuthenticationFixed ==
    /\ script = "doc_generator_fixed" /\ probe_pc = "start"
    /\ \E resp \in ProbeResponses, page \in SessionPages, answer \in Answers :
          LET v == verify_gitlab_authentication_fixed(resp)
          IN /\ api_access_working' = v.api
             /\ ssl_verify' = v.ssl_verify
             /\ lastCall' = [resp |-> resp, retry |-> "200"]
             /\ EnterSession(v.next, page, answer, v.outer)
    /\ UNCHANGED prompts
    /\ ProbeFrame

\* The sign-in prompt raised.  The except clause of the session check calls
\* the prompt again ("retry"), or swallows the exception ("swallow"); failing
\* that the except clause of the caller marks the API as failed and runs the
\* strict session check; failing that the constructor raises.
PromptRaised(page2) ==
    CASE inner_guard = "retry" ->
            /\ inner_guard' = "none"
            /\ attempt' = 1
            /\ UNCHANGED <<probe_pc, outcome, api_access_working,
                           browser_session_available, outer_guard>>
      [] inner_guard = "swallow" ->
            /\ browser_session_available' = FALSE
            /\ probe_pc' = "end"
            /\ outcome' = "returned"
            /\ UNCHANGED <<api_access_working, inner_guard, outer_guard, attempt>>
      [] inner_guard = "none" /\ outer_guard ->
            /\ api_access_working' = FALSE
            /\ EnterSession("strict", page2, "n", FALSE)
      [] OTHER ->
            /\ probe_pc' = "end"
            /\ outcome' = "raised"
            /\ UNCHANGED <<api_access_working, browser_session_available,
                           inner_guard, outer_guard, attempt>>

\* The sign-in prompt set browser_session_available and left its loop; the
\* session check and the constructor's probing return.
PromptAvailable ==
    /\ browser_session_available' = TRUE
    /\ probe_pc' = "end"
    /\ outcome' = "returned"
    /\ UNCHANGED <<api_access_working, inner_guard, outer_guard, attempt>>

\* prompt_enhanced_signin: the operator is asked to sign in and presses
\* Enter; the page is refreshed and looked at.
SigninAttempt ==
    /\ script = "enhanced" /\ probe_pc = "signin"
    /\ prompts' = prompts + 1
    /\ \E page \in SessionPages, answer \in Answers, page2 \in SessionPages :
          LET a == signin_attempt(page, answer, attempt)
          IN CASE a = "available" -> PromptAvailable
               [] a = "again" ->
                     /\ attempt' = attempt + 1
                     /\ UNCHANGED <<probe_pc, outcome, api_access_working,
                                    browser_session_available, inner_guard, outer_guard>>
               [] OTHER -> PromptRaised(page2)
    /\ UNCHANGED <<ssl_verify, lastCall>>
    /\ ProbeFrame

\* prompt_gitlab_signin: the same step of the loop without a bound.
SigninAttemptFixed ==
    /\ script = "doc_generator_fixed" /\ probe_pc = "signin"
    /\ prompts < MaxPrompts
    /\ prompts' = prompts + 1
    /\ \E page \in SessionPages, answer \in Answers, page2 \in SessionPages :
          LET a == signin_attempt_fixed(page, answer)
          IN CASE a = "available" -> PromptAvailable
               [] a = "again" ->
                     UNCHANGED <<probe_pc, outcome, api_access_working,
                                 browser_session_available, inner_guard, outer_guard,
                                 attempt>>
               [] OTHER -> PromptRaised(page2)
    /\ UNCHANGED <<ssl_verify, lastCall>>
    /\ ProbeFrame

ProbeNext ==
    \/ VerifyGitlabAuthentication
    \/ VerifyGitlabAuthenticationFixed
    \/ SigninAttempt
    \/ SigninAttemptFixed

ProbeSpec == InitProbe /\ [][ProbeNext]_vars

\* C16: during capability probing the operator is asked to complete the
\* interactive sign-in at most three times.
C16_AtMostThreeSigninPrompts == prompts <= 3

\* C17: capability probing never completes normally with api_access_working
\* and browser_session_available both false; it raises when the API probe
\* failed and browser verification is disabled.
C17_FatalWithoutChannel ==
    /\ (probe_pc = "end" /\ outcome = "returned")
          => (api_access_working \/ browser_session_available)
    /\ (probe_pc = "end" /\ skip_browser /\ ~api_access_working)
          => outcome = "raised"

\* C17 witness: the enhanced script's probing raised after the API probe got
\* a 401 and the operator did not sign in within the attempts of the prompt.
C17_Witness ==
    /\ script = "enhanced" /\ probe_pc = "end" /\ outcome = "raised"
    /\ ~api_access_working /\ ~browser_session_available
    /\ lastCall.resp = "401"
    /\ ~skip_browser /\ prompts >= MaxAttempts

\* C25: when the API probe succeeded and the operator did not complete the
\* sign-in within the bound of attempts, start-up still completes, API-only:
\* verify_gitlab_authentication returns with api_access_working true and
\* browser_session_available false.
C25_ApiOnlyAfterLoginBound ==
    (script = "enhanced" /\ probe_pc = "end" /\ lastCall.resp = "200"
        /\ prompts >= MaxAttempts /\ ~browser_session_available)
        => (outcome = "returned" /\ api_access_working)

(***************************************************************************)
(* ONE RUN OF main(): THE WEBDRIVER SESSION FROM OPENING TO EXIT           *)
(*                                                                         *)
(* "enhanced" is the program whose class starts in                         *)
(* enhanced_gitlab_mr_generator.py and whose main() is in                  *)
(* gitlab_mr_missing_code.py; "existing_profile" is                        *)
(* gitlab_mr_existing_profile.py.                                          *)
(***************************************************************************)

RunScripts == {"enhanced", "existing_profile"}

\* enhanced: SKIP_BROWSER_VERIFICATION set or not.  existing_profile: both
\* --project-id and --mr-iid given ("cli") or not ("interactive").
RunModes(s) == IF s = "enhanced" THEN {"skip_browser", "full"} ELSE {"cli", "interactive"}

\* setup_chrome_driver: webdriver.Chrome() fails (no session), or a call on
\* the new driver fails (the session is open), or all succeed.  The function
\* re-raises (enhanced) or fails in its unguarded fallback (existing_profile).
DriverSetups == {"ok", "chrome_fails", "script_fails"}

\* What one step of the try body can do: finish, raise an Exception, or be
\* interrupted by the user (KeyboardInterrupt).
StepOutcomes == {"ok", "raises", "interrupt"}

\* gitlab_mr_missing_code.py main, finally clause: 'if generator:
\* generator.cleanup()'; cleanup quits the driver when the object has one.
cleanup_in_finally(gen, drv) ==
    IF gen /\ drv = "open" THEN "quit" ELSE drv

\* Where an exception raised in the try body of main() leads: to the except
\* clauses, which only log.
raise_in_main(o) == IF o = "interrupt" THEN "interrupt" ELSE "fatal"

InitRun ==
    /\ script \in RunScripts
    /\ outcome = "running"
    /\ run_pc = "setup_chrome_driver"
    /\ driver = "none"
    /\ generator = FALSE
    /\ exit_kind = "none"
    /\ run_mode \in RunModes(script)
    /\ mr_count \in (IF script = "enhanced" THEN 1..MaxMRs ELSE {1})
    /\ mr_index = 0
    /\ AccessIdle
    /\ AnalysisIdle
    /\ BatchIdle
    /\ SynthIdle
    /\ ClassifyIdle
    /\ DiffIdle
    /\ PromptIdle
    /\ PollIdle
    /\ ProbeIdle
    /\ StageIdle
    /\ SubmitIdle
    /\ TabIdle

RunFrame ==
    /\ UNCHANGED <<script, run_mode, mr_count>>
    /\ UNCHANGED <<api_access_working, browser_session_available, skip_browser,
                   ssl_verify, result, lastCall, calls>>
    /\ UNCHANGED <<analysisVars, batchVars, synthVars, classifyVars>>
    /\ UNCHANGED <<diffVars, promptVars, pollVars, probeVars>>
    /\ UNCHANGED <<stageVars, submitVars, tabVars>>

\* The try body is left by an exception: the matching except clause logs.
Leave(kind) ==
    /\ run_pc' = "except"
    /\ exit_kind' = kind

\* __init__ calls setup_chrome_driver.  In existing_profile it is the last
\* statement of __init__, so main's 'generator' is bound when it returns.
SetupChromeDriver ==
    /\ run_pc = "setup_chrome_driver"
    /\ \E o \in DriverSetups :
          /\ driver' = IF o = "chrome_fails" THEN "none" ELSE "open"
          /\ IF o = "ok"
             THEN /\ run_pc' = IF script = "enhanced"
                               THEN "verify_gitlab_authentication"
                               ELSE "authenticate"
                  /\ generator' = (script = "existing_profile")
                  /\ UNCHANGED exit_kind
             ELSE /\ Leave("fatal")
                  /\ UNCHANGED generator
    /\ UNCHANGED <<outcome, mr_index>>
    /\ RunFrame

\* enhanced __init__: verify_gitlab_authentication returns, raises, or the
\* operator interrupts a sign-in prompt.  With SKIP_BROWSER_VERIFICATION the
\* constructor returns here.
VerifyInConstructor ==
    /\ script = "enhanced"
    /\ run_pc = "verify_gitlab_authentication"
    /\ \E o \in StepOutcomes :
          IF o = "ok"
          THEN /\ run_pc' = IF run_mode = "skip_browser"
                            THEN "process_merge_requests"
                            ELSE "setup_gemini_web_interface"
               /\ generator' = (run_mode = "skip_browser")
               /\ UNCHANGED exit_kind
          ELSE /\ Leave(raise_in_main(o))
               /\ UNCHANGED generator
    /\ UNCHANGED <<outcome, driver, mr_index>>
    /\ RunFrame

\* enhanced __init__: setup_gemini_web_interface catches every Exception
\* itself; only an interrupt leaves it.  Then the constructor returns.
SetupGeminiInConstructor ==
    /\ script = "enhanced"
    /\ run_pc = "setup_gemini_web_interface"
    /\ \E o \in {"ok", "interrupt"} :
          IF o = "ok"
          THEN /\ run_pc' = "process_merge_requests"
               /\ generator' = TRUE
               /\ UNCHANGED exit_kind
          ELSE /\ Leave("interrupt")
               /\ UNCHANGED generator
    /\ UNCHANGED <<outcome, driver, mr_index>>
    /\ RunFrame

\* enhanced main: process_merge_requests handles the next merge request, or
\* returns after the last, or an exception or interrupt leaves it.
ProcessMergeRequests ==
    /\ script = "enhanced"
    /\ run_pc = "process_merge_requests"
    /\ IF mr_index = mr_count
       THEN /\ run_pc' = "finally"
            /\ exit_kind' = "normal"
            /\ UNCHANGED mr_index
       ELSE \E o \in StepOutcomes :
               IF o = "ok"
               THEN /\ mr_index' = mr_index + 1
                    /\ UNCHANGED <<run_pc, exit_kind>>
               ELSE /\ Leave(IF o = "interrupt" THEN "interrupt" ELSE "error")
                    /\ UNCHANGED mr_index
    /\ UNCHANGED <<outcome, driver, generator>>
    /\ RunFrame

\* existing_profile main, command line mode: perform_smart_authentication,
\* generate_mr_documentation and save_documentation_to_file in turn; a False
\* or an 'error' answer makes main return from inside the try body.
\* Interactive mode: generator.run_interactive_mode() raises AttributeError,
\* the def being nested in cleanup().
ExistingProfileStep ==
    /\ script = "existing_profile"
    /\ run_pc \in {"authenticate", "generate", "save"}
    /\ IF run_mode = "interactive"
       THEN /\ Leave("error")
            /\ UNCHANGED mr_index
       ELSE \E o \in StepOutcomes \cup {"refused"} :
               CASE o = "ok" ->
                       /\ run_pc' = CASE run_pc = "authenticate" -> "generate"
                                      [] run_pc = "generate" -> "save"
                                      [] OTHER -> "exit"
                       /\ exit_kind' = IF run_pc = "save" THEN "normal" ELSE exit_kind
                       /\ mr_index' = IF run_pc = "save" THEN 1 ELSE mr_index
                 [] o = "refused" ->
                       /\ run_pc' = "exit"
                       /\ exit_kind' = "normal"
                       /\ UNCHANGED mr_index
                 [] OTHER ->
                       /\ Leave(IF o = "interrupt" THEN "interrupt" ELSE "error")
                       /\ UNCHANGED mr_index
    /\ UNCHANGED <<outcome, driver, generator>>
    /\ RunFrame

\* The except clauses of main() log and fall through: to the finally clause
\* in gitlab_mr_missing_code.py, to the end of main in existing_profile.
ExceptClause ==
    /\ run_pc = "except"
    /\ run_pc' = IF script = "enhanced" THEN "finally" ELSE "exit"
    /\ UNCHANGED <<outcome, driver, generator, exit_kind, mr_index>>
    /\ RunFrame

\* gitlab_mr_missing_code.py main, finally clause.
FinallyClause ==
    /\ script = "enhanced"
    /\ run_pc = "finally"
    /\ driver' = cleanup_in_finally(generator, driver)
    /\ run_pc' = "exit"
    /\ UNCHANGED <<outcome, generator, exit_kind, mr_index>>
    /\ RunFrame

\* main() returns and the program ends.
ExitMain ==
    /\ run_pc = "exit"
    /\ run_pc' = "exited"
    /\ outcome' = "exited"
    /\ UNCHANGED <<driver, generator, exit_kind, mr_index>>
    /\ RunFrame

RunNext ==
    \/ SetupChromeDriver
    \/ VerifyInConstructor
    \/ SetupGeminiInConstructor
    \/ ProcessMergeRequests
    \/ ExistingProfileStep
    \/ ExceptClause
    \/ FinallyClause
    \/ ExitMain

RunSpec == InitRun /\ [][RunNext]_vars

\* C21: on every way a run ends after the WebDriver session was opened
\* (normal completion, fatal setup error, unexpected error, user interrupt),
\* the session has been released (driver.quit()) when the program exits.
C21_SessionReleasedOnExit ==
    (run_pc = "exited" /\ driver # "none") => driver = "quit"

(***************************************************************************)
(* ORDER OF THE PIPELINE STAGES IN A BATCH                                 *)
(*                                                                         *)
(* "doc_generator": generate_documentation_for_multiple_mrs and            *)
(* generate_documentation_for_mr of gitlab_mr_doc_generator.py.            *)
(* "missing_code": process_merge_requests and generate_documentation of    *)
(* gitlab_mr_missing_code.py.                                              *)
(***************************************************************************)

StageScripts == {"doc_generator", "missing_code"}

\* How a stage can end.  "partial": the accessibility check found the merge
\* request through the browser only.
StageOutcomes == {"ok", "partial", "fails"}

\* The first stage the second loop runs for a merge request:
\* generate_documentation_for_mr starts with check_mr_accessibility again,
\* generate_documentation with get_merge_request_changes.
first_stage(s) == IF s = "doc_generator" THEN "accessibility" ELSE "classification"

\* The stage that follows within the same merge request, or "next_mr".
\* doc_generator: an inaccessible merge request returns its error message;
\* the changes are fetched only when the API reached the merge request, and
\* a request that raises there ends the merge request in the loop's except
\* clause; the answer of the analysis is returned as it is.
\* missing_code: an empty change list does not stop the analysis;
\* send_to_gemini_analysis calls generate_fallback_analysis when the
\* analysis gave nothing usable.
after_stage(s, stage, o) ==
    IF s = "doc_generator"
    THEN CASE stage = "accessibility" ->
                 (CASE o = "ok" -> "classification"
                    [] o = "partial" -> "analysis"
                    [] OTHER -> "next_mr")
           [] stage = "classification" -> IF o = "fails" THEN "next_mr" ELSE "analysis"
           [] OTHER -> "next_mr"
    ELSE CASE stage = "classification" -> "analysis"
           [] stage = "analysis" -> IF o = "ok" THEN "next_mr" ELSE "fallback"
           [] OTHER -> "next_mr"

\* Mutant of next_accessible: the second loop walks the whole list.
next_accessible_unfiltered(acc, i, n) ==
    IF i < n THEN i + 1 ELSE 0

\* 'for mr in accessible_mrs': the next index after i that the first loop
\* appended to accessible_mrs, 0 when there is none.
next_accessible(acc, i, n) ==
    IF \E j \in acc : j > i
    THEN CHOOSE j \in acc : j > i /\ \A k \in acc : k > i => j <= k
    ELSE 0

InitStage ==
    /\ script \in StageScripts
    /\ outcome = "running"
    /\ st_count \in 1..MaxMRs
    /\ accessible_mrs = {}
    /\ st_pos = 1
    /\ st_stage = "check"
    /\ stage_log = <<>>
    /\ AccessIdle
    /\ AnalysisIdle
    /\ BatchIdle
    /\ SynthIdle
    /\ ClassifyIdle
    /\ DiffIdle
    /\ PromptIdle
    /\ PollIdle
    /\ ProbeIdle
    /\ RunIdle
    /\ SubmitIdle
    /\ TabIdle

StageFrame ==
    /\ UNCHANGED <<script, st_count>>
    /\ UNCHANGED <<api_access_working, browser_session_available, skip_browser,
                   ssl_verify, result, lastCall, calls>>
    /\ UNCHANGED <<analysisVars, batchVars, synthVars, classifyVars>>
    /\ UNCHANGED <<diffVars, promptVars, pollVars, probeVars>>
    /\ UNCHANGED <<runVars, submitVars, tabVars>>

\* First loop, one iteration: check_mr_accessibility of the next merge
\* request of the list; an accessible one is appended to accessible_mrs.
CheckAccessibilityOfAll ==
    /\ st_stage = "check" /\ st_pos <= st_count
    /\ \E o \in StageOutcomes :
          accessible_mrs' = IF o = "fails" THEN accessible_mrs
                            ELSE accessible_mrs \cup {st_pos}
    /\ stage_log' = Append(stage_log, [mr |-> st_pos, stage |-> "accessibility", loop |-> 1])
    /\ st_pos' = st_pos + 1
    /\ UNCHANGED <<outcome, st_stage>>
    /\ StageFrame

\* Between the loops: return when nothing is accessible, else start the
\* second loop at the first accessible merge request.
StartSecondLoop ==
    /\ st_stage = "check" /\ st_pos > st_count
    /\ LET j == next_accessible(accessible_mrs, 0, st_count)
       IN /\ st_pos' = j
          /\ st_stage' = IF j = 0 THEN "end" ELSE first_stage(script)
          /\ outcome' = IF j = 0 THEN "returned" ELSE outcome
    /\ UNCHANGED <<accessible_mrs, stage_log>>
    /\ StageFrame

\* Second loop: the next stage of the merge request being handled runs to
\* its end; after the last stage the loop moves on.
RunStage ==
    /\ st_stage \in {"accessibility", "classification", "analysis", "fallback"}
    /\ \E o \in StageOutcomes :
          LET nxt == after_stage(script, st_stage, o)
              j == next_accessible(accessible_mrs, st_pos, st_count)
          IN IF nxt # "next_mr"
             THEN /\ st_stage' = nxt
                  /\ UNCHANGED <<st_pos, outcome>>
             ELSE /\ st_pos' = j
                  /\ st_stage' = IF j = 0 THEN "end" ELSE first_stage(script)
                  /\ outcome' = IF j = 0 THEN "returned" ELSE outcome
    /\ stage_log' = Append(stage_log, [mr |-> st_pos, stage |-> st_stage, loop |-> 2])
    /\ UNCHANGED accessible_mrs
    /\ StageFrame

StageNext == CheckAccessibilityOfAll \/ StartSecondLoop \/ RunStage

StageSpec == InitStage /\ [][StageNext]_vars

\* Position of a stage in the pipeline of one merge request.
StageRank(stage) ==
    CASE stage = "accessibility" -> 1
      [] stage = "classification" -> 2
      [] stage = "analysis" -> 3
      [] OTHER -> 4

SubmitScripts == {"doc_generator", "complete", "improved"}

\* The submission strategies in the order of the code.
\* doc_generator: Enter, the send button, Ctrl+Enter (nested try blocks).
\* complete: the five send-button XPaths, then Enter.
\* improved (send_gemini_message): the four send-button selectors, then
\* Ctrl+Enter, then Enter in the except clause.
Strategies(s) ==
    CASE s = "doc_generator" -> <<"key", "button", "key">>
      [] s = "complete" -> <<"button", "button", "button", "button", "button", "key">>
      [] OTHER -> <<"button", "button", "button", "button", "key", "key">>

\* What trying a strategy can do.  A key press goes through or raises.  A
\* button is not found, or is found and its click goes through or raises.
StrategyOutcomes(kind) ==
    IF kind = "key" THEN {"ok", "raises"} ELSE {"ok", "absent", "click_raises"}

\* gitlab_mr_doc_generator.py send_prompt_to_gemini_web: each except clause
\* tries the next method; an exception of the last one leaves the function
\* through its outer except clause.
submit_step_doc(i, o) ==
    IF o = "ok" THEN [pc |-> "returned", idx |-> i]
    ELSE IF i < 3 THEN [pc |-> "submit", idx |-> i + 1]
    ELSE [pc |-> "raised", idx |-> i]

\* gitlab_mr_complete.py send_prompt_to_gemini_web: the loop over the XPaths
\* breaks after a click; 'send_button' keeps the element the wait returned
\* even when its click raised; Enter is pressed only 'if not send_button'.
submit_step_complete(i, o, found) ==
    LET found2 == found \/ o \in {"ok", "click_raises"}
    IN CASE i = 6 ->
               [pc |-> IF o = "ok" THEN "returned" ELSE "raised", idx |-> i, found |-> found]
         [] o = "ok" -> [pc |-> "returned", idx |-> i, found |-> found2]
         [] i < 5 -> [pc |-> "submit", idx |-> i + 1, found |-> found2]
         [] OTHER ->
               IF found2 THEN [pc |-> "returned", idx |-> i, found |-> found2]
               ELSE [pc |-> "submit", idx |-> 6, found |-> found2]

\* gitlab_mr_generator_improved.py send_gemini_message: the first selector
\* with elements is clicked and the function returns; without any, Ctrl+Enter;
\* any exception leads to the except clause, which presses Enter outside
\* any try block.
submit_step_improved(i, o) ==
    CASE o = "ok" -> [pc |-> "returned", idx |-> i]
      [] i = 6 -> [pc |-> "raised", idx |-> i]
      [] o = "absent" -> [pc |-> "submit", idx |-> i + 1]
      [] OTHER -> [pc |-> "submit", idx |-> 6]

InitSubmit ==
    /\ script \in SubmitScripts
    /\ outcome = "running"
    /\ sub_pc = "submit"
    /\ sub_idx = 1
    /\ send_button = FALSE
    /\ attempts = <<>>
    /\ AccessIdle
    /\ AnalysisIdle
    /\ BatchIdle
    /\ SynthIdle
    /\ ClassifyIdle
    /\ DiffIdle
    /\ PromptIdle
    /\ PollIdle
    /\ ProbeIdle
    /\ RunIdle
    /\ StageIdle
    /\ TabIdle

SubmitFrame ==
    /\ UNCHANGED script
    /\ UNCHANGED <<api_access_working, browser_session_available, skip_browser,
                   ssl_verify, result, lastCall, calls>>
    /\ UNCHANGED <<analysisVars, batchVars, synthVars, classifyVars>>
    /\ UNCHANGED <<diffVars, promptVars, pollVars, probeVars>>
    /\ UNCHANGED <<runVars, stageVars, tabVars>>

\* The strategy at sub_idx is tried; r tells where the code goes from there.
TryStrategy(o, r) ==
    /\ attempts' = Append(attempts, [idx |-> sub_idx, outcome |-> o])
    /\ sub_pc' = r.pc
    /\ sub_idx' = r.idx
    /\ outcome' = CASE r.pc = "returned" -> "returned"
                    [] r.pc = "raised" -> "raised"
                    [] OTHER -> outcome

SubmitDoc ==
    /\ script = "doc_generator" /\ sub_pc = "submit"
    /\ \E o \in StrategyOutcomes(Strategies(script)[sub_idx]) :
          TryStrategy(o, submit_step_doc(sub_idx, IF o = "ok" THEN "ok" ELSE "raises"))
    /\ UNCHANGED send_button
    /\ SubmitFrame

SubmitComplete ==
    /\ script = "complete" /\ sub_pc = "submit"
    /\ \E o \in StrategyOutcomes(Strategies(script)[sub_idx]) :
          LET r == submit_step_complete(sub_idx, o, send_button)
          IN /\ TryStrategy(o, r)
             /\ send_button' = r.found
    /\ SubmitFrame

SubmitImproved ==
    /\ script = "improved" /\ sub_pc = "submit"
    /\ \E o \in StrategyOutcomes(Strategies(script)[sub_idx]) :
          TryStrategy(o, submit_step_improved(sub_idx, o))
    /\ UNCHANGED send_button
    /\ SubmitFrame

SubmitNext == SubmitDoc \/ SubmitComplete \/ SubmitImproved

SubmitSpec == InitSubmit /\ [][SubmitNext]_vars

\* C29: after the final chunk is typed the submission strategies are tried
\* in a fixed order, a later one only after every earlier attempt failed,
\* and the submission step never returns normally without a strategy having
\* gone through.
C29_SubmitInOrderUntilSuccess ==
    /\ \A a, b \in 1..Len(attempts) :
          a < b => (attempts[a].idx < attempts[b].idx /\ attempts[a].outcome # "ok")
    /\ sub_pc = "returned" => \E a \in 1..Len(attempts) : attempts[a].outcome = "ok"

(***************************************************************************)
(* THE BROWSER TAB DURING THE ANALYSIS STEP                                *)
(***************************************************************************)

TabScripts == {"improved", "missing_code"}

\* The window the driver is switched to when the routine returns by 'path'.
\* improved (analyze_code_changes_with_gemini) switches to window_handles[0]
\* after get_gemini_response and, inside a try block of its own, in the
\* except clause; its return for a missing input area has no switch.
\* missing_code (send_to_gemini_analysis) has no switch to window_handles[0].
switch_back(s, path, sw, cur) ==
    IF s = "improved"
    THEN CASE path \in {"response", "empty"} -> "gitlab"
           [] path = "exception" -> IF sw = "ok" THEN "gitlab" ELSE cur
           [] OTHER -> cur
    ELSE cur

InitTab ==
    /\ script \in TabScripts
    /\ outcome = "running"
    /\ tab = "gitlab"
    /\ tab_pc = "entry"
    /\ tab_path = "none"
    /\ tab_switched = FALSE
    /\ tab_count = 0
    /\ AccessIdle
    /\ AnalysisIdle
    /\ BatchIdle
    /\ SynthIdle
    /\ ClassifyIdle
    /\ DiffIdle
    /\ PromptIdle
    /\ PollIdle
    /\ ProbeIdle
    /\ RunIdle
    /\ StageIdle
    /\ SubmitIdle

TabFrame ==
    /\ UNCHANGED <<script, outcome>>
    /\ UNCHANGED <<api_access_working, browser_session_available, skip_browser,
                   ssl_verify, result, lastCall, calls>>
    /\ UNCHANGED <<analysisVars, batchVars, synthVars, classifyVars>>
    /\ UNCHANGED <<diffVars, promptVars, pollVars, probeVars>>
    /\ UNCHANGED <<runVars, stageVars, submitVars>>

\* The routine returns by 'path'.
ReturnBy(path, sw) ==
    /\ tab_pc' = "returned"
    /\ tab_path' = path
    /\ tab' = switch_back(script, path, sw, tab)

\* The first lines of the routine: the early return (no Java changes in
\* improved, Gemini not ready in missing_code), else the switch to
\* window_handles[-1], which may raise.
EnterAnalysis ==
    /\ tab_pc = "entry"
    /\ \E start \in {"early_return", "switched", "raises"} :
          CASE start = "early_return" ->
                 /\ ReturnBy("not_started", "ok")
                 /\ UNCHANGED tab_switched
            [] start = "switched" ->
                 /\ tab' = "gemini"
                 /\ tab_switched' = TRUE
                 /\ tab_pc' = "find_input"
                 /\ UNCHANGED tab_path
            [] OTHER ->
                 /\ tab_pc' = "except"
                 /\ UNCHANGED <<tab, tab_path, tab_switched>>
    /\ UNCHANGED tab_count
    /\ TabFrame

\* The loop over the input selectors and the test 'if not input_element'.
FindInput ==
    /\ tab_pc = "find_input"
    /\ \E o \in {"found", "absent", "raises"} :
          CASE o = "found" -> tab_pc' = "send" /\ UNCHANGED <<tab, tab_path>>
            [] o = "absent" -> ReturnBy("input_not_found", "ok")
            [] OTHER -> tab_pc' = "except" /\ UNCHANGED <<tab, tab_path>>
    /\ UNCHANGED <<tab_switched, tab_count>>
    /\ TabFrame

\* The prompt is typed and sent and the response is read; in improved the
\* switch to window_handles[0] follows and may raise as well.
SendAndWait ==
    /\ tab_pc = "send"
    /\ \E o \in {"response", "empty", "raises"}, sw \in {"ok", "raises"} :
          IF o = "raises" \/ (script = "improved" /\ sw = "raises")
          THEN tab_pc' = "except" /\ UNCHANGED <<tab, tab_path>>
          ELSE ReturnBy(o, sw)
    /\ UNCHANGED <<tab_switched, tab_count>>
    /\ TabFrame

\* The except clause of the routine.
AnalysisExcept ==
    /\ tab_pc = "except"
    /\ \E sw \in {"ok", "raises"} : ReturnBy("exception", sw)
    /\ UNCHANGED <<tab_switched, tab_count>>
    /\ TabFrame

\* The caller goes on to the next merge request and calls the routine again
\* with the driver as the last call left it.
NextAnalysis ==
    /\ tab_pc = "returned"
    /\ tab_count + 1 < MaxMRs
    /\ tab_count' = tab_count + 1
    /\ tab_pc' = "entry"
    /\ tab_switched' = FALSE
    /\ UNCHANGED <<tab, tab_path>>
    /\ TabFrame

TabNext == EnterAnalysis \/ FindInput \/ SendAndWait \/ AnalysisExcept \/ NextAnalysis

TabSpec == InitTab /\ [][TabNext]_vars

\* C30: once the analysis step has switched to the analysis tab, the driver
\* is back on window_handles[0] when the step returns, whichever way it
\* returns (response, empty response, no input area, exception).
C30_BackOnSourceTabAtReturn ==
    (tab_pc = "returned" /\ tab_switched) => tab = "gitlab"

====
